---- MODULE Spec2Model ----
(***************************************************************************)
(* Command/response transport of the RFID dashboard                        *)
(* (rfid_dashboard_configure_lightsleep_multibutton_S3_live.py).           *)
(*                                                                         *)
(* One behaviour is one call send_command(ser, command) against a device   *)
(* that may emit lines at any moment and a link that may become invalid at *)
(* any moment.  Times are in milliseconds.  A captured text is the         *)
(* sequence of its lines: the code appends line + "\n" for every stripped, *)
(* non-empty line and returns response.strip(), which removes only the     *)
(* final "\n", so the returned text is empty exactly when the sequence is. *)
(***************************************************************************)
EXTENDS Integers, Sequences, FiniteSets, TLC

(***************************************************************************)
(* Bounds of the model.                                                    *)
(***************************************************************************)
\* Lines the device emits during one send_command call.
MaxLines == 2
\* Granularity of the clock: time.time() advances by TickMs between two
\* iterations of a collection loop.
TickMs == 300

(***************************************************************************)
(* Program constants.                                                      *)
(***************************************************************************)
WAKE_DELAY == 220
max_retries == 3
RetryBackoffMs == 500
PostWriteDelayMs == 100
FastQuietPeriod == 600
FastHardTimeout == 10000
RangeQuietPeriod == 1500
PlainQuietPeriod == 600
RangeHardTimeout == 30000
PlainHardTimeout == 20000

(***************************************************************************)
(* Command strings, as sequences of characters.                            *)
(***************************************************************************)
\* "dashboardmode on"
CmdDashboardmodeOn ==
    <<"d", "a", "s", "h", "b", "o", "a", "r", "d", "m", "o", "d", "e", " ", "o", "n">>
\* "dashboardmode off"
CmdDashboardmodeOff ==
    <<"d", "a", "s", "h", "b", "o", "a", "r", "d", "m", "o", "d", "e", " ", "o", "f", "f">>
\* "status"
CmdStatus ==
    <<"s", "t", "a", "t", "u", "s">>
\* "debugsimple"
CmdDebugsimple ==
    <<"d", "e", "b", "u", "g", "s", "i", "m", "p", "l", "e">>
\* "debug"
CmdDebug ==
    <<"d", "e", "b", "u", "g">>
\* "buttonmode"
CmdButtonmode ==
    <<"b", "u", "t", "t", "o", "n", "m", "o", "d", "e">>
\* "testbutton"
CmdTestbutton ==
    <<"t", "e", "s", "t", "b", "u", "t", "t", "o", "n">>
\* "print"
CmdPrint ==
    <<"p", "r", "i", "n", "t">>
\* "range 1 2"
CmdRange ==
    <<"r", "a", "n", "g", "e", " ", "1", " ", "2">>
\* " range 1 2" (leading blank)
CmdPaddedRange ==
    <<" ", "r", "a", "n", "g", "e", " ", "1", " ", "2">>
\* "range" (no argument, no blank)
CmdRangeBare ==
    <<"r", "a", "n", "g", "e">>
\* "get ssid"
CmdGetSsid ==
    <<"g", "e", "t", " ", "s", "s", "i", "d">>
\* "time"
CmdTime ==
    <<"t", "i", "m", "e">>
\* " status" (leading blank: not an element of the fast list)
CmdPaddedStatus ==
    <<" ", "s", "t", "a", "t", "u", "s">>
\* "clear"
CmdClear ==
    <<"c", "l", "e", "a", "r">>
\* "set ssid x"
CmdSetSsid ==
    <<"s", "e", "t", " ", "s", "s", "i", "d", " ", "x">>
\* "range " : the prefix send_command tests for
RangePrefix ==
    <<"r", "a", "n", "g", "e", " ">>

\* The list of send_command: `command in [...]` is exact equality.
FastCommands ==
    { CmdDashboardmodeOn, CmdDashboardmodeOff, CmdStatus, CmdDebugsimple,
      CmdDebug, CmdButtonmode, CmdTestbutton, CmdPrint }

\* Commands of the transport specification: one of each family.
Commands == { CmdStatus, CmdRange, CmdSetSsid }

\* Commands of the profile specification: the whole vocabulary and the edge
\* cases of the two tests on the command text.
AllCommands ==
    FastCommands \cup { CmdRange, CmdPaddedRange, CmdRangeBare, CmdGetSsid,
                        CmdTime, CmdPaddedStatus, CmdClear, CmdSetSsid }

(***************************************************************************)
(* String helpers: str.strip() and str.startswith().                       *)
(***************************************************************************)
Whitespace == {" ", "\t", "\n", "\r"}

RECURSIVE LStrip(_)
LStrip(s) ==
    IF s # <<>> /\ Head(s) \in Whitespace THEN LStrip(Tail(s)) ELSE s

RECURSIVE RStrip(_)
RStrip(s) ==
    IF s # <<>> /\ s[Len(s)] \in Whitespace
    THEN RStrip(SubSeq(s, 1, Len(s) - 1))
    ELSE s

Strip(s) == RStrip(LStrip(s))

StartsWith(s, p) ==
    /\ Len(s) >= Len(p)
    /\ SubSeq(s, 1, Len(p)) = p

(***************************************************************************)
(* Lines on the link.  kind is what the decoded, stripped line is: blank   *)
(* (empty or undecodable), ordinary text, a line holding </DASHBOARD_DATA> *)
(* or a line holding ---END_READINGS---; n numbers the lines of the call   *)
(* in emission order.                                                      *)
(***************************************************************************)
LineKinds == {"text", "blank", "dashboard_end", "readings_end"}

\* Mutant: an empty or undecodable line passes `if line:` too.
NonEmptyLine_AnyLine(l) == TRUE

\* raw.decode(errors='ignore').strip() is non-empty
NonEmptyLine(l) == l.kind # "blank"

HasDashboardEnd(l) == l.kind = "dashboard_end"

HasReadingsEnd(l) == l.kind = "readings_end"

NonEmptyLines(s) == SelectSeq(s, NonEmptyLine)

VARIABLES
    command,        \* the command text
    link,           \* "ok", "closed" (is_open false), "broken" (I/O raises), "none" (ser is None)
    pc,             \* position in send_command / _wake_and_send_command
    attempt,        \* loop variable of _wake_and_send_command
    now,            \* time.time()
    polled,         \* the collection loop has iterated at the current clock value
    inbuf,          \* input buffer of the link
    arrived,        \* lines put in the input buffer since it was last cleared
    nEmitted,       \* lines emitted by the device in this call
    ops,            \* link operations of the current exchange, in order
    cmdWrites,      \* command lines written to the link in this call
    response,       \* local: lines captured by the current collection
    received_any,   \* local
    last_rx_time,   \* local: <<>> is None, <<t>> a time
    start_time,     \* local
    end_reason,     \* local
    quiet_period,   \* local
    hard_timeout,   \* local
    captured,       \* texts of the finished collections of this call, in order
    result,         \* what send_command returned
    via             \* return statement taken: "wrapper", "plain", "error"

locals ==
    << response, received_any, last_rx_time, start_time, end_reason,
       quiet_period, hard_timeout >>

\* State of the response parser (parse_readings, get_variable_with_markers),
\* which the transport leaves alone.
VARIABLES
    version,        \* the dashboard file: "S3_live" or "lightsleep"
    raw_response,   \* the text handed to parse_readings, as its lines
    readings,       \* what parse_readings returned
    var,            \* the variable name handed to get_variable_with_markers
    rx_lines,       \* the lines its loop read from the link, in order
    value,          \* what it returned: <<>> is None, <<l>> the line l
    applied         \* the function that has run: "" is none yet

parserVars == << version, raw_response, readings, var, rx_lines, value, applied >>

\* No parser call is in progress.
ParserIdle ==
    /\ version = ""
    /\ raw_response = <<>>
    /\ readings = <<>>
    /\ var = <<>>
    /\ rx_lines = <<>>
    /\ value = <<>>
    /\ applied = ""

\* State of the dashboard script, which Streamlit runs top to bottom on
\* every user input and on every st.rerun().
VARIABLES
    session_state,      \* st.session_state: the keys the Live View uses
    section,            \* section of the script the run is in; "idle" or
                        \* "rerun" between runs
    click,              \* the widget event that started the run
    start_epoch_live,   \* local: <<>> is None, <<e>> an epoch in seconds
    should_auto_refresh, \* local
    item,               \* loop index of Set Variables / Read Variables
    fn,                 \* the link function the script is inside; "" is none
    collecting,         \* its command is written and its loop has not ended
    returned,           \* what it returned to the handler: <<>> is nothing yet
    inputs,             \* history: user inputs and link events so far
    in_flight,          \* history: commands written whose loop has not ended
    query,              \* history: the last range query of the scheduler
    activation,         \* history: the current Live View activation
    failed_polls,       \* history: polls failed in a row in this connection
    forced,             \* history: why and after how many failed polls in
                        \* a row the code ended the connection
    shown               \* history: st.error reports of a lost connection
                        \* since the last connect, and whether an exception
                        \* left the script

sessionVars ==
    << session_state, section, click, start_epoch_live, should_auto_refresh, item,
       fn, collecting, returned, inputs, in_flight, query, activation,
       failed_polls, forced, shown >>

\* Lines 88-135: the defaults of st.session_state; no script run is going on.
SessionIdle ==
    /\ session_state =
          [ connected |-> FALSE,
            connected_port |-> <<>>,
            last_df |-> <<>>,
            live_view_enabled |-> FALSE,
            live_view_checkbox |-> FALSE,
            live_view_checkbox_previous |-> FALSE,
            live_view_stop_requested |-> FALSE,
            live_view_start_timestamp |-> <<>>,
            last_live_update |-> 0,
            last_connection_test |-> 0,
            connection_error_count |-> 0,
            selected_timezone |-> "America/Costa_Rica" ]
    /\ section = "idle"
    /\ click = "none"
    /\ start_epoch_live = <<>>
    /\ should_auto_refresh = FALSE
    /\ item = 0
    /\ fn = ""
    /\ collecting = FALSE
    /\ returned = <<>>
    /\ inputs = 0
    /\ in_flight = 0
    /\ query = <<>>
    /\ activation = <<>>
    /\ failed_polls = 0
    /\ forced = <<>>
    /\ shown = [ lost |-> 0, raised |-> FALSE, failed |-> FALSE, poll |-> <<>> ]

\* The state outside one send_command call.
others == << parserVars, sessionVars >>

OthersIdle == ParserIdle /\ SessionIdle

vars ==
    << command, link, pc, attempt, now, polled, inbuf, arrived, nEmitted, ops,
       cmdWrites, response, received_any, last_rx_time, start_time, end_reason,
       quiet_period, hard_timeout, captured, result, via, others >>

InitAt(cmds, links, t) ==
    /\ command \in cmds
    /\ link \in links
    /\ pc = "start"
    /\ attempt = 0
    /\ now = t
    /\ polled = FALSE
    /\ inbuf = <<>>
    /\ arrived = <<>>
    /\ nEmitted = 0
    /\ ops = <<>>
    /\ cmdWrites = 0
    /\ response = <<>>
    /\ received_any = FALSE
    /\ last_rx_time = <<>>
    /\ start_time = 0
    /\ end_reason = ""
    /\ quiet_period = 0
    /\ hard_timeout = 0
    /\ captured = <<>>
    /\ result = <<>>
    /\ via = ""

InitWith(cmds, links) == InitAt(cmds, links, 0)

Init == InitWith(Commands, {"ok", "none"}) /\ OthersIdle

(***************************************************************************)
(* Decisions of the code.                                                  *)
(***************************************************************************)
\* Mutant: every command but a range query goes through the wrapper.
IsFastCommand_AllButRange(cmd) == ~StartsWith(cmd, RangePrefix)

\* send_command: command in ["dashboardmode on", ...]
IsFastCommand(cmd) == cmd \in FastCommands

\* Mutant: the prefix test without strip().
ExpectRange_NoStrip(cmd) == StartsWith(cmd, RangePrefix)

\* send_command: expect_range = command.strip().startswith("range ")
ExpectRange(cmd) == StartsWith(Strip(cmd), RangePrefix)

\* send_command: quiet_period = 1.5 if expect_range else 0.6
PlainQuietPeriodFor(cmd) ==
    IF ExpectRange(cmd) THEN RangeQuietPeriod ELSE PlainQuietPeriod

\* send_command: hard_timeout = 30 if expect_range else 20
PlainHardTimeoutFor(cmd) ==
    IF ExpectRange(cmd) THEN RangeHardTimeout ELSE PlainHardTimeout

\* Mutant: the quiet period is reached at a gap equal to it.
QuietReached_AtEqual(ra, lrt, t, qp) ==
    /\ ra
    /\ lrt # <<>>
    /\ t - lrt[1] >= qp

\* received_any and last_rx_time is not None and (t - last_rx_time) > quiet_period
QuietReached(ra, lrt, t, qp) ==
    /\ ra
    /\ lrt # <<>>
    /\ t - lrt[1] > qp

\* Mutant: the hard timeout is reached at an elapsed time equal to it.
HardTimeoutReached_AtEqual(t, st, ht) == t - st >= ht

\* now_ts - start_time > hard_timeout
HardTimeoutReached(t, st, ht) == t - st > ht

\* Mutant: ---END_READINGS--- ends the exchange of any command.
IsEndMarker_AnyCommand(cmd, l) ==
    \/ HasDashboardEnd(l)
    \/ HasReadingsEnd(l)

\* '</DASHBOARD_DATA>' in line or (expect_range and '---END_READINGS---' in line)
IsEndMarker(cmd, l) ==
    \/ HasDashboardEnd(l)
    \/ (ExpectRange(cmd) /\ HasReadingsEnd(l))

\* Mutant: one attempt too many.
RetryAgain_OffByOne(a) == a < max_retries

\* _wake_and_send_command: attempt < max_retries - 1
RetryAgain(a) == a < max_retries - 1

\* is_serial_valid(ser): ser is not None, ser.is_open, ser.port readable
is_serial_valid(l) == l = "ok" \/ l = "broken"

\* Mutant: the stale input stays in the buffer.
ClearedBuffer_KeepsInput(buf) == buf

\* ser.reset_input_buffer(): what is left of the input buffer
ClearedBuffer(buf) == <<>>

(***************************************************************************)
(* Link operations, as entries of ops.                                     *)
(***************************************************************************)
Op(name) == [op |-> name, ms |-> 0]

Sleep(d) == [op |-> "sleep", ms |-> d]

\* ser.write(b"\n"); ser.flush(); time.sleep(wake_delay)
WakeOps == << Op("write_wake"), Op("flush"), Sleep(WAKE_DELAY) >>

\* ser.write(f"{command}\n".encode()); ser.flush()
WriteOps == << Op("write_command"), Op("flush") >>

(***************************************************************************)
(* The environment: the device and the link.                               *)
(***************************************************************************)
\* The device emits one line; it reaches the input buffer of the link.
Emit ==
    /\ pc # "done"
    /\ link = "ok"
    /\ nEmitted < MaxLines
    /\ \E k \in LineKinds :
          LET l == [kind |-> k, n |-> nEmitted + 1] IN
          /\ inbuf' = Append(inbuf, l)
          /\ arrived' = Append(arrived, l)
    /\ nEmitted' = nEmitted + 1
    /\ polled' = FALSE
    /\ UNCHANGED << command, others, link, now >>
    /\ UNCHANGED << pc, attempt, ops, cmdWrites, captured, result, via >>
    /\ UNCHANGED locals

\* Time passes while a collection loop spins.  The loops do not sleep: an
\* iteration is short against TickMs, so the loop has emptied the input
\* buffer and made its tests at the current clock value before the clock
\* moves on.
Tick ==
    /\ pc \in {"w_collect", "p_collect", "t_collect"}
    /\ polled
    /\ inbuf = <<>>
    /\ now' = now + TickMs
    /\ polled' = FALSE
    /\ UNCHANGED << command, others, link, inbuf, arrived, nEmitted >>
    /\ UNCHANGED << pc, attempt, ops, cmdWrites, captured, result, via >>
    /\ UNCHANGED locals

\* The link may become invalid at any moment: the port is closed under the
\* program ("closed"), or the device is unplugged and every I/O operation
\* raises ("broken").  The program sees it at its next link operation, so
\* that operation is where the model lets the link go; an invalid link stays
\* invalid.
LinkFound(l) == IF l = "ok" THEN {"closed", "broken"} ELSE {l}

(***************************************************************************)
(* send_command and _wake_and_send_command.                                *)
(***************************************************************************)
devVars == << command, others, inbuf, arrived, nEmitted >>

\* The locals both collections set before their loop.
StartCollect(qp, ht) ==
    /\ response' = <<>>
    /\ start_time' = now'
    /\ received_any' = FALSE
    /\ last_rx_time' = <<>>
    /\ end_reason' = ""
    /\ quiet_period' = qp
    /\ hard_timeout' = ht
    /\ polled' = FALSE

\* An exception leaves the collection: its locals are dead (every later use
\* is preceded by an assignment), which the model shows by clearing them.
DropLocals ==
    /\ response' = <<>>
    /\ start_time' = 0
    /\ received_any' = FALSE
    /\ last_rx_time' = <<>>
    /\ end_reason' = ""
    /\ quiet_period' = 0
    /\ hard_timeout' = 0
    /\ polled' = FALSE

\* Mutant: a link error restarts the exchange instead of returning.
ReturnError_StartsOver ==
    /\ pc' = "p_wake"
    /\ DropLocals
    /\ UNCHANGED << attempt, now, ops, cmdWrites, captured, result, via >>
    /\ UNCHANGED devVars

\* Mutant: a link error returns the lines captured so far.
ReturnError_KeepsText ==
    /\ pc' = "done"
    /\ result' = response
    /\ via' = "error"
    /\ DropLocals
    /\ UNCHANGED << attempt, now, ops, cmdWrites, captured >>
    /\ UNCHANGED devVars

\* send_command: except Exception: return ""
ReturnError ==
    /\ pc' = "done"
    /\ result' = <<>>
    /\ via' = "error"
    /\ DropLocals
    /\ UNCHANGED << attempt, now, ops, cmdWrites, captured >>
    /\ UNCHANGED devVars

\* _wake_and_send_command: except Exception: sleep and retry, or return ""
\* after the last attempt; send_command then falls back to the plain path.
WrapperExcept ==
    /\ IF RetryAgain(attempt)
       THEN /\ attempt' = attempt + 1
            /\ now' = now + RetryBackoffMs
            /\ pc' = "w_begin"
       ELSE /\ pc' = "p_wake"
            /\ UNCHANGED << attempt, now >>
    /\ DropLocals
    /\ UNCHANGED << ops, cmdWrites, captured, result, via >>
    /\ UNCHANGED devVars

\* send_command: the branch on the command.
Dispatch ==
    /\ pc = "start"
    /\ pc' = IF IsFastCommand(command) THEN "w_begin" ELSE "p_wake"
    /\ UNCHANGED << attempt, now, polled, ops, cmdWrites, captured, result, via >>
    /\ UNCHANGED locals
    /\ UNCHANGED << devVars, link >>

\* _wake_and_send_command: top of the loop body, the wake byte.
WrapperWake ==
    /\ pc = "w_begin"
    /\ \/ /\ link = "none"
          \* if ser is None: return ""
          /\ pc' = "p_wake"
          /\ UNCHANGED << attempt, now, polled, ops, cmdWrites, captured, result, via >>
          /\ UNCHANGED locals
          /\ UNCHANGED << devVars, link >>
       \/ /\ link = "ok"
          /\ ops' = WakeOps
          /\ now' = now + WAKE_DELAY
          /\ pc' = "w_clear"
          /\ UNCHANGED << attempt, polled, cmdWrites, captured, result, via >>
          /\ UNCHANGED locals
          /\ UNCHANGED << devVars, link >>
       \/ /\ link # "none"
          /\ link' \in LinkFound(link)
          /\ WrapperExcept

\* _wake_and_send_command: ser.reset_input_buffer()
WrapperClear ==
    /\ pc = "w_clear"
    /\ \/ /\ link = "ok"
          /\ inbuf' = ClearedBuffer(inbuf)
          /\ arrived' = <<>>
          /\ ops' = Append(ops, Op("reset_input_buffer"))
          /\ pc' = "w_write"
          /\ UNCHANGED << command, others, link, nEmitted >>
          /\ UNCHANGED << attempt, now, polled, cmdWrites, captured, result, via >>
          /\ UNCHANGED locals
       \/ /\ link' \in LinkFound(link)
          /\ WrapperExcept

\* _wake_and_send_command: write the command line, flush, sleep(0.1), set
\* the locals of the collection.
WrapperWrite ==
    /\ pc = "w_write"
    /\ \/ /\ link = "ok"
          /\ ops' = ops \o WriteOps \o << Sleep(PostWriteDelayMs) >>
          /\ cmdWrites' = cmdWrites + 1
          /\ now' = now + PostWriteDelayMs
          /\ StartCollect(FastQuietPeriod, FastHardTimeout)
          /\ pc' = "w_collect"
          /\ UNCHANGED << attempt, captured, result, via >>
          /\ UNCHANGED << devVars, link >>
       \/ /\ link' \in LinkFound(link)
          /\ WrapperExcept

\* _wake_and_send_command: one iteration of `while True`.  The quiet-period
\* test stands inside `if ser.in_waiting:`.
WrapperPoll ==
    /\ pc = "w_collect"
    /\ \/ /\ link = "ok"
          /\ LET hasData == inbuf # <<>>
                 got == hasData /\ NonEmptyLine(Head(inbuf))
                 ra == received_any \/ got
                 lrt == IF got THEN << now >> ELSE last_rx_time
                 quiet == hasData /\ QuietReached(ra, lrt, now, quiet_period)
                 hard == ~quiet /\ HardTimeoutReached(now, start_time, hard_timeout)
             IN
             /\ inbuf' = IF hasData THEN Tail(inbuf) ELSE inbuf
             /\ ops' = IF hasData THEN Append(ops, Op("readline")) ELSE ops
             /\ response' = IF got THEN Append(response, Head(inbuf)) ELSE response
             /\ received_any' = ra
             /\ last_rx_time' = lrt
             /\ end_reason' = IF quiet THEN "quiet_period"
                               ELSE IF hard THEN "hard_timeout"
                               ELSE end_reason
             /\ pc' = IF quiet \/ hard THEN "w_after" ELSE "w_collect"
             /\ polled' = TRUE
          /\ UNCHANGED << command, others, link, arrived, nEmitted >>
          /\ UNCHANGED << attempt, now, cmdWrites, captured, result, via >>
          /\ UNCHANGED << start_time, quiet_period, hard_timeout >>
       \/ /\ link' \in LinkFound(link)
          /\ WrapperExcept

\* _wake_and_send_command after the loop, and send_command's use of what the
\* wrapper returned: `if response: return response`, else the fallback.
WrapperAfter ==
    /\ pc = "w_after"
    /\ captured' = Append(captured, response)
    /\ IF response # <<>>
       THEN /\ result' = response
            /\ via' = "wrapper"
            /\ pc' = "done"
            /\ UNCHANGED << attempt, now >>
       ELSE /\ IF RetryAgain(attempt)
               THEN /\ attempt' = attempt + 1
                    /\ now' = now + RetryBackoffMs
                    /\ pc' = "w_begin"
               ELSE /\ pc' = "p_wake"
                    /\ UNCHANGED << attempt, now >>
            /\ UNCHANGED << result, via >>
    /\ UNCHANGED << polled, ops, cmdWrites >>
    /\ UNCHANGED locals
    /\ UNCHANGED << devVars, link >>

\* _wake_serial(ser), called by send_command.
PlainWake ==
    /\ pc = "p_wake"
    /\ \/ /\ link = "ok"
          /\ ops' = WakeOps
          /\ now' = now + WAKE_DELAY
          /\ pc' = "p_clear"
          /\ UNCHANGED << attempt, polled, cmdWrites, captured, result, via >>
          /\ UNCHANGED locals
          /\ UNCHANGED << devVars, link >>
       \/ /\ link' \in LinkFound(link)
          /\ IF is_serial_valid(link')
             THEN \* ser.write raises: except SERIAL_EXCEPTIONS: raise
                  ReturnError
             ELSE \* if ser is None or not is_serial_valid(ser): return
                  /\ ops' = <<>>
                  /\ pc' = "p_clear"
                  /\ UNCHANGED << attempt, now, polled, cmdWrites, captured, result, via >>
                  /\ UNCHANGED locals
                  /\ UNCHANGED devVars

\* send_command: ser.reset_input_buffer()
PlainClear ==
    /\ pc = "p_clear"
    /\ \/ /\ link = "ok"
          /\ inbuf' = ClearedBuffer(inbuf)
          /\ arrived' = <<>>
          /\ ops' = Append(ops, Op("reset_input_buffer"))
          /\ pc' = "p_write"
          /\ UNCHANGED << command, others, link, nEmitted >>
          /\ UNCHANGED << attempt, now, polled, cmdWrites, captured, result, via >>
          /\ UNCHANGED locals
       \/ /\ link' \in LinkFound(link)
          /\ ReturnError

\* send_command: write the command line, flush, set the locals.
PlainWrite ==
    /\ pc = "p_write"
    /\ \/ /\ link = "ok"
          /\ ops' = ops \o WriteOps
          /\ cmdWrites' = cmdWrites + 1
          /\ now' = now
          /\ StartCollect(PlainQuietPeriodFor(command), PlainHardTimeoutFor(command))
          /\ pc' = "p_collect"
          /\ UNCHANGED << attempt, captured, result, via >>
          /\ UNCHANGED << devVars, link >>
       \/ /\ link' \in LinkFound(link)
          /\ ReturnError

\* send_command: one iteration of `while True`.
PlainPoll ==
    /\ pc = "p_collect"
    /\ \/ /\ link = "ok"
          /\ LET hasData == inbuf # <<>>
                 got == hasData /\ NonEmptyLine(Head(inbuf))
                 ra == received_any \/ got
                 lrt == IF got THEN << now >> ELSE last_rx_time
                 marker == hasData /\ IsEndMarker(command, Head(inbuf))
                 quiet == ~marker /\ QuietReached(ra, lrt, now, quiet_period)
                 hard == ~marker /\ ~quiet
                         /\ HardTimeoutReached(now, start_time, hard_timeout)
             IN
             /\ inbuf' = IF hasData THEN Tail(inbuf) ELSE inbuf
             /\ ops' = IF hasData THEN Append(ops, Op("readline")) ELSE ops
             /\ response' = IF got THEN Append(response, Head(inbuf)) ELSE response
             /\ received_any' = ra
             /\ last_rx_time' = lrt
             /\ end_reason' = IF marker THEN "end_marker"
                               ELSE IF quiet THEN "quiet_period"
                               ELSE IF hard THEN "hard_timeout"
                               ELSE end_reason
             /\ pc' = IF marker \/ quiet \/ hard THEN "p_return" ELSE "p_collect"
             /\ polled' = TRUE
          /\ UNCHANGED << command, others, link, arrived, nEmitted >>
          /\ UNCHANGED << attempt, now, cmdWrites, captured, result, via >>
          /\ UNCHANGED << start_time, quiet_period, hard_timeout >>
       \/ /\ link' \in LinkFound(link)
          /\ ReturnError

\* Mutant: the plain path returns nothing of what it captured.
PlainReturn_DropsText ==
    /\ pc = "p_return"
    /\ captured' = Append(captured, response)
    /\ result' = <<>>
    /\ via' = "plain"
    /\ pc' = "done"
    /\ UNCHANGED << attempt, now, polled, ops, cmdWrites >>
    /\ UNCHANGED locals
    /\ UNCHANGED << devVars, link >>

\* send_command: return response.strip()
PlainReturn ==
    /\ pc = "p_return"
    /\ captured' = Append(captured, response)
    /\ result' = response
    /\ via' = "plain"
    /\ pc' = "done"
    /\ UNCHANGED << attempt, now, polled, ops, cmdWrites >>
    /\ UNCHANGED locals
    /\ UNCHANGED << devVars, link >>

Program ==
    \/ Dispatch
    \/ WrapperWake
    \/ WrapperClear
    \/ WrapperWrite
    \/ WrapperPoll
    \/ WrapperAfter
    \/ PlainWake
    \/ PlainClear
    \/ PlainWrite
    \/ PlainPoll
    \/ PlainReturn

Next ==
    \/ Program
    \/ Tick
    \/ Emit

Spec == Init /\ [][Next]_vars

\* The same program under the scheduling the code has: the program keeps
\* running (a single thread, no blocking call without a timeout) and time
\* advances.
FairSpec == Spec /\ WF_vars(Program) /\ WF_vars(Tick)

\* The timing profiles over the whole command vocabulary, against a silent
\* device.
InitProfile == InitWith(AllCommands, {"ok"}) /\ OthersIdle

NextProfile ==
    \/ Program
    \/ Tick

ProfileSpec == InitProfile /\ [][NextProfile]_vars

(***************************************************************************)
(* The response parser: parse_readings, extract_latest_readings_block and  *)
(* the value selection of get_variable_with_markers.                       *)
(*                                                                         *)
(* A line of device text is a record.  marks is the set of sentinels the   *)
(* line contains.  idx says that the line has the #<index>: prefix, dbg    *)
(* that the prefix is followed by the annotation                           *)
(* [DEBUG] raw_timestamp=<n>, converted= ; ts, v1, tag and temp are the    *)
(* four comma-separated fields after it, each a sequence of characters     *)
(* ("deg" is the degree sign).  The text between the fields is what the    *)
(* two regular expressions fix, so a pattern matches a line exactly when   *)
(* its prefix and its four fields do.                                      *)
(***************************************************************************)
\* Lines of a text handed to parse_readings.
MaxTextLines == 4
\* Lines get_variable_with_markers reads before its timeout.
MaxGetLines == 4

Versions == {"S3_live", "lightsleep"}

Digit == {"0", "1", "2", "3", "4", "5", "6", "7", "8", "9"}

AllIn(s, cls) == \A i \in 1..Len(s) : s[i] \in cls

\* ([\d\-]+\s[\d:]+) up to the comma
TimestampField(ts) ==
    \E k \in 2..(Len(ts) - 1) :
        /\ ts[k] \in Whitespace
        /\ AllIn(SubSeq(ts, 1, k - 1), Digit \cup {"-"})
        /\ AllIn(SubSeq(ts, k + 1, Len(ts)), Digit \cup {":"})

\* ([\d]+) up to the comma
IntegerField(f) == f # <<>> /\ AllIn(f, Digit)

\* Length of the longest prefix of t over [\d.]
RECURSIVE NumberRun(_)
NumberRun(t) ==
    IF t # <<>> /\ Head(t) \in Digit \cup {"."}
    THEN 1 + NumberRun(Tail(t))
    ELSE 0

\* [\d.]+ followed by the unit
HasCelsius(t) ==
    LET k == NumberRun(t) IN
    /\ k >= 1
    /\ Len(t) >= k + 2
    /\ t[k + 1] = "deg"
    /\ t[k + 2] = "C"

NotAvailable == << "N", "/", "A" >>

HasNotAvailable(t) == Len(t) >= 3 /\ SubSeq(t, 1, 3) = NotAvailable

\* The last group of both patterns: <<>> when the field does not match,
\* else the text of the group.  S3_live: ((?:[\d.]+ deg C|N/A)); lightsleep:
\* ([\d.]+) followed by the unit.
TemperatureGroup(ver, t) ==
    IF HasCelsius(t)
    THEN IF ver = "S3_live"
         THEN << SubSeq(t, 1, NumberRun(t) + 2) >>
         ELSE << SubSeq(t, 1, NumberRun(t)) >>
    ELSE IF ver = "S3_live" /\ HasNotAvailable(t)
         THEN << NotAvailable >>
         ELSE <<>>

FieldsMatch(ver, l) ==
    /\ TimestampField(l.ts)
    /\ IntegerField(l.v1)
    /\ IntegerField(l.tag)
    /\ TemperatureGroup(ver, l.temp) # <<>>

debug_match(ver, l) == l.idx /\ l.dbg /\ FieldsMatch(ver, l)

normal_match(ver, l) == l.idx /\ ~l.dbg /\ FieldsMatch(ver, l)

\* temp.replace(unit, ''): every occurrence of the unit is removed
RECURSIVE RemoveUnit(_)
RemoveUnit(t) ==
    IF t = <<>> THEN <<>>
    ELSE IF Len(t) >= 2 /\ t[1] = "deg" /\ t[2] = "C"
         THEN RemoveUnit(SubSeq(t, 3, Len(t)))
         ELSE << Head(t) >> \o RemoveUnit(Tail(t))

\* S3_live: 'N/A' is kept, the unit is removed; lightsleep: the group as is.
temp_value(ver, temp) ==
    IF ver = "S3_live"
    THEN IF temp = NotAvailable THEN NotAvailable ELSE RemoveUnit(temp)
    ELSE temp

\* The dictionary appended for a matching line.
ReadingOf(ver, l) ==
    [ Timestamp |-> l.ts, Value1 |-> l.v1, Tag |-> l.tag,
      Temperature_C |-> temp_value(ver, TemperatureGroup(ver, l.temp)[1]) ]

\* Mutant: the end sentinel does not close the block.
InBlockAfter_NeverCloses(l, in_block) ==
    IF "BEGIN" \in l.marks THEN TRUE ELSE in_block

\* in_block after the line l
InBlockAfter(l, in_block) ==
    IF "BEGIN" \in l.marks THEN TRUE
    ELSE IF "END" \in l.marks THEN FALSE
    ELSE in_block

\* The sentinel tests come first and `continue`.
IsSentinel(l) == "BEGIN" \in l.marks \/ "END" \in l.marks

RECURSIVE ParseLines(_, _, _)
ParseLines(ver, lines, in_block) ==
    IF lines = <<>> THEN <<>>
    ELSE LET l == Head(lines)
             rest == ParseLines(ver, Tail(lines), InBlockAfter(l, in_block))
         IN IF ~IsSentinel(l) /\ in_block
                /\ (debug_match(ver, l) \/ normal_match(ver, l))
            THEN << ReadingOf(ver, l) >> \o rest
            ELSE rest

\* Mutant: only the lines up to the last ---END_READINGS--- line are read.
parse_readings_ClosedBlocksOnly(ver, lines) ==
    LET ends == { i \in 1..Len(lines) : "END" \in lines[i].marks }
        last == IF ends = {} THEN 0
                ELSE CHOOSE i \in ends : \A k \in ends : k <= i
    IN ParseLines(ver, SubSeq(lines, 1, last), FALSE)

parse_readings(ver, lines) == ParseLines(ver, lines, FALSE)

\* re.findall(r'<DASHBOARD_DATA>(.*?)</DASHBOARD_DATA>', ...)[-1]: the
\* matches pair each opening tag with the next closing tag, left to right;
\* the result is the content of the last pair, or the whole text when there
\* is no pair.
RECURSIVE LastWrapper(_, _, _, _)
LastWrapper(lines, open, cur, last) ==
    IF lines = <<>> THEN last
    ELSE LET l == Head(lines) IN
         IF ~open
         THEN LastWrapper(Tail(lines), "OPEN" \in l.marks, <<>>, last)
         ELSE IF "CLOSE" \in l.marks
              THEN LastWrapper(Tail(lines), FALSE, <<>>, << cur >>)
              ELSE LastWrapper(Tail(lines), TRUE, Append(cur, l), last)

\* The block loop of extract_latest_readings_block: blocks[-1], or "".
RECURSIVE LastBlock(_, _, _, _)
LastBlock(lines, in_block, current_block, last) ==
    IF lines = <<>> THEN last
    ELSE LET l == Head(lines) IN
         IF "BEGIN" \in l.marks
         THEN LastBlock(Tail(lines), TRUE, <<>>, last)
         ELSE IF "END" \in l.marks
              THEN LastBlock(Tail(lines), FALSE, current_block, current_block)
              ELSE LastBlock(Tail(lines), in_block,
                             IF in_block THEN Append(current_block, l)
                                         ELSE current_block,
                             last)

extract_latest_readings_block(lines) ==
    LET w == LastWrapper(lines, FALSE, <<>>, <<>>)
        body == IF w # <<>> THEN w[1] ELSE lines
    IN LastBlock(body, FALSE, <<>>, <<>>)

\* Lines a device sends in answer to a range query.
Sentinel(m) ==
    [ marks |-> {m}, idx |-> FALSE, dbg |-> FALSE,
      ts |-> <<>>, v1 |-> <<>>, tag |-> <<>>, temp |-> <<>> ]

RecordLine(isDebug, tagText, tempText) ==
    [ marks |-> {}, idx |-> TRUE, dbg |-> isDebug,
      ts |-> << "7", "-", "2", " ", "5", ":", "1" >>,
      v1 |-> << "9", "9", "9" >>, tag |-> tagText, temp |-> tempText ]

ReadingLines ==
    { Sentinel("BEGIN"), Sentinel("END"), Sentinel("OPEN"), Sentinel("CLOSE"),
      RecordLine(FALSE, << "1", "4", "1" >>, << "2", "4", ".", "8", "deg", "C" >>),
      RecordLine(TRUE, << "7" >>, << "7", "deg", "C" >>),
      RecordLine(FALSE, << "5", "5" >>, NotAvailable),
      RecordLine(FALSE, << "6" >>, << "2", "4" >>),
      [ marks |-> {}, idx |-> FALSE, dbg |-> FALSE,
        ts |-> <<>>, v1 |-> <<>>, tag |-> <<>>, temp |-> <<>> ] }

TextsOver(alphabet, n) == UNION { [1..k -> alphabet] : k \in 0..n }

\* What the collection of a range query can return: its loop stops at the
\* first line that holds </DASHBOARD_DATA> or ---END_READINGS---.
CapturedByRange(lines) ==
    \A i \in 1..(Len(lines) - 1) :
        "CLOSE" \notin lines[i].marks /\ "END" \notin lines[i].marks

\* Variable names and marker bases, as sequences of characters.
VarRfidOnTimeMs == << "r", "f", "i", "d", "O", "n", "T", "i", "m", "e", "M", "s" >>

VarPeriodicIntervalMs == << "p", "e", "r", "i", "o", "d", "i", "c", "I", "n", "t", "e", "r", "v", "a", "l", "M", "s" >>

VarSsid == << "s", "s", "i", "d" >>

VarPassword == << "p", "a", "s", "s", "w", "o", "r", "d" >>

VarLongPressMs == << "l", "o", "n", "g", "P", "r", "e", "s", "s", "M", "s" >>

VarUnmapped == << "S", "s", "i", "d" >>

marker_map ==
    (VarRfidOnTimeMs :> << "R", "F", "I", "D", "O", "N", "T", "I", "M", "E" >>)
    @@ (VarPeriodicIntervalMs :> << "P", "E", "R", "I", "O", "D", "I", "C", "I", "N", "T", "E", "R", "V", "A", "L" >>)
    @@ (VarSsid :> << "S", "S", "I", "D" >>)
    @@ (VarPassword :> << "P", "A", "S", "S", "W", "O", "R", "D" >>)
    @@ (VarLongPressMs :> << "L", "O", "N", "G", "P", "R", "E", "S", "S", "M", "S" >>)

\* str.upper on the letters
UpperOf ==
    ("a" :> "A") @@ ("b" :> "B") @@ ("c" :> "C") @@ ("d" :> "D") @@ ("e" :> "E")
    @@ ("f" :> "F") @@ ("g" :> "G") @@ ("h" :> "H") @@ ("i" :> "I") @@ ("j" :> "J")
    @@ ("k" :> "K") @@ ("l" :> "L") @@ ("m" :> "M") @@ ("n" :> "N") @@ ("o" :> "O")
    @@ ("p" :> "P") @@ ("q" :> "Q") @@ ("r" :> "R") @@ ("s" :> "S") @@ ("t" :> "T")
    @@ ("u" :> "U") @@ ("v" :> "V") @@ ("w" :> "W") @@ ("x" :> "X") @@ ("y" :> "Y")
    @@ ("z" :> "Z")

upper(s) ==
    [ i \in 1..Len(s) |-> IF s[i] \in DOMAIN UpperOf THEN UpperOf[s[i]] ELSE s[i] ]

\* Mutant: the table is not consulted.
marker_base_UpperOnly(v) == upper(v)

\* marker_map.get(var, var.upper())
marker_base(v) == IF v \in DOMAIN marker_map THEN marker_map[v] ELSE upper(v)

\* A stripped line read by get_variable_with_markers: kind "begin" with
\* s = B is the text <GET_B_BEGIN>, kind "end" the text <GET_B_END>, kind
\* "text" any other non-empty text s, kind "empty" the empty line.
MarkerLine(k, base) == [ kind |-> k, s |-> base ]

start_marker(v) == MarkerLine("begin", marker_base(v))

end_marker(v) == MarkerLine("end", marker_base(v))

\* The loop of get_variable_with_markers over the lines it reads before
\* its timeout: lines_between when the loop ends.
RECURSIVE LinesBetween(_, _, _, _)
LinesBetween(v, lines, found, lines_between) ==
    IF lines = <<>> THEN lines_between
    ELSE LET line == Head(lines) IN
         IF line = start_marker(v)
         THEN LinesBetween(v, Tail(lines), TRUE, lines_between)
         ELSE IF found /\ line = end_marker(v)
              THEN lines_between
              ELSE LinesBetween(v, Tail(lines), found,
                                IF found THEN Append(lines_between, line)
                                         ELSE lines_between)

\* next((l for l in lines_between if l and l != start_marker and
\* l != end_marker), None)
FirstValue(v, lines_between) ==
    LET ok == { i \in 1..Len(lines_between) :
                  /\ lines_between[i].kind # "empty"
                  /\ lines_between[i] # start_marker(v)
                  /\ lines_between[i] # end_marker(v) }
    IN IF ok = {} THEN <<>>
       ELSE << lines_between[CHOOSE i \in ok : \A j \in ok : i <= j] >>

get_variable_with_markers(v, lines) ==
    FirstValue(v, LinesBetween(v, lines, FALSE, <<>>))

\* The marker base the firmware uses for a variable.
DeviceMarker(v) ==
    CASE v = VarRfidOnTimeMs -> << "R", "F", "I", "D", "O", "N", "T", "I", "M", "E" >>
      [] v = VarPeriodicIntervalMs ->
            << "P", "E", "R", "I", "O", "D", "I", "C", "I", "N", "T", "E", "R", "V", "A", "L" >>
      [] v = VarSsid -> << "S", "S", "I", "D" >>
      [] v = VarPassword -> << "P", "A", "S", "S", "W", "O", "R", "D" >>
      [] v = VarLongPressMs ->
            << "L", "O", "N", "G", "P", "R", "E", "S", "S", "M", "S" >>
      [] v = VarUnmapped -> << "S", "S", "I", "D" >>

VarNames ==
    { VarRfidOnTimeMs, VarPeriodicIntervalMs, VarSsid, VarPassword,
      VarLongPressMs, VarUnmapped }

\* What a device may send in answer to `get <v>`: the markers of v, the
\* markers built from the upper-cased name, values and empty lines.
GetLines(v) ==
    { MarkerLine(k, b) : k \in {"begin", "end"}, b \in {DeviceMarker(v), upper(v)} }
    \cup { MarkerLine("text", << "4", "2" >>), MarkerLine("text", << "h", "i" >>),
           MarkerLine("empty", <<>>) }

(***************************************************************************)
(* Specification of the parser: a text (or the lines of a get exchange)    *)
(* is drawn, then one function is applied to it.                           *)
(***************************************************************************)
InitParser ==
    /\ InitWith({<<>>}, {"none"})
    /\ SessionIdle
    /\ version \in Versions
    /\ raw_response \in TextsOver(ReadingLines, MaxTextLines)
    /\ readings = <<>>
    /\ var = <<>>
    /\ rx_lines = <<>>
    /\ value = <<>>
    /\ applied = ""

transportVars ==
    << command, link, pc, attempt, now, polled, inbuf, arrived, nEmitted, ops,
       cmdWrites, response, received_any, last_rx_time, start_time, end_reason,
       quiet_period, hard_timeout, captured, result, via >>

\* parse_readings(response) on any text.
CallParseReadings ==
    /\ applied = ""
    /\ readings' = parse_readings(version, raw_response)
    /\ applied' = "parse_readings"
    /\ UNCHANGED << version, raw_response, var, rx_lines, value >>
    /\ UNCHANGED << transportVars, sessionVars >>

\* The Retrieve Data handler and the live poll: `if response:` then
\* readings = parse_readings(response), on a text that send_command returned
\* for a range query.
RetrieveData ==
    /\ applied = ""
    /\ raw_response # <<>>
    /\ CapturedByRange(raw_response)
    /\ readings' = parse_readings(version, raw_response)
    /\ applied' = "retrieve"
    /\ UNCHANGED << version, raw_response, var, rx_lines, value >>
    /\ UNCHANGED << transportVars, sessionVars >>

NextParser ==
    \/ CallParseReadings
    \/ RetrieveData

ParserSpec == InitParser /\ [][NextParser]_vars

InitGet ==
    /\ InitWith({<<>>}, {"ok"})
    /\ SessionIdle
    /\ version \in Versions
    /\ raw_response = <<>>
    /\ readings = <<>>
    /\ var \in VarNames
    /\ rx_lines \in TextsOver(GetLines(var), MaxGetLines)
    /\ value = <<>>
    /\ applied = ""

\* get_variable_with_markers(ser, var) over the lines the link delivers.
CallGetVariable ==
    /\ applied = ""
    /\ value' = get_variable_with_markers(var, rx_lines)
    /\ applied' = "get_variable"
    /\ UNCHANGED << version, raw_response, readings, var, rx_lines >>
    /\ UNCHANGED << transportVars, sessionVars >>

NextGet == CallGetVariable

GetSpec == InitGet /\ [][NextGet]_vars

(***************************************************************************)
(* The dashboard script: connection handling, the Live View scheduler and  *)
(* the handlers that talk to the link.  One run of the script goes through *)
(* its sections in order; a call of a link function is two steps, the      *)
(* operations up to the command line and the end of the collection loop.   *)
(* time.time() is now, in ms; datetime.now() is the host's wall clock, and *)
(* the host is in the zone the dashboard selects by default.               *)
(***************************************************************************)
\* now when the model starts.
ClockOrigin == 100000000
\* The script starts no run later than HorizonMs after ClockOrigin.
HorizonMs == 95000
\* User inputs and link events in one behaviour.
MaxInputs == 3
\* Time a responsive device takes to answer a command.
AnswerMs == 200
\* New York's clocks jump one hour forward GapLeadMs after ClockOrigin.
GapLeadMs == 4000

PollPeriodMs == 5000
ConnTestPeriodMs == 30000
ErrorThreshold == 3
RerunSleepMs == 100
QuickTestDelayMs == 100
QuickTestTimeoutMs == 1000
TestTimeoutMs == 2000
GetDelayMs == 50
GetTimeoutMs == 4000
ConnectSettleMs == 500
ConfigVars == 5
MsPerSecond == 1000
HourMs == 3600000

\* The timezone_options the model selects from.
Zones == {"America/Costa_Rica", "America/New_York"}

HostZone == "America/Costa_Rica"

\* The wall time, in ms, at which New York's clocks jump forward.
GapStart == ClockOrigin - 6 * HourMs + GapLeadMs

\* tz.utcoffset of a wall time, in ms; dst chooses inside the hour that the
\* jump skips.
UtcOffset(tz, naive, dst) ==
    IF tz = "America/Costa_Rica" THEN 0 - 6 * HourMs
    ELSE IF naive < GapStart THEN 0 - 5 * HourMs
    ELSE IF naive >= GapStart + HourMs THEN 0 - 4 * HourMs
    ELSE IF dst THEN 0 - 4 * HourMs ELSE 0 - 5 * HourMs

\* The wall time does not exist in the zone.
NonExistent(tz, naive) ==
    tz = "America/New_York" /\ naive >= GapStart /\ naive < GapStart + HourMs

\* datetime.now()
HostNow(t) == t + UtcOffset(HostZone, t, FALSE)

\* int(local_tz.localize(dt, is_dst=dst).astimezone(pytz.UTC).timestamp())
Epoch(tz, naive, dst) == (naive - UtcOffset(tz, naive, dst)) \div MsPerSecond

\* Lines 1150-1160: both times are localized with is_dst=None; when either
\* does not exist both are localized again with is_dst=True.
StartEpoch(tz, start_dt, end_dt) ==
    Epoch(tz, start_dt, NonExistent(tz, start_dt) \/ NonExistent(tz, end_dt))

\* Lines 1277-1283
EndEpochNow(tz, end_dt) == Epoch(tz, end_dt, NonExistent(tz, end_dt))

(***************************************************************************)
(* The table the dashboard displays (last_df): the readings of a response, *)
(* their timestamps converted to the selected zone, sorted by timestamp.   *)
(* A datetime is a record of its six fields.                               *)
(***************************************************************************)
\* datetime.strptime(ts, '%Y-%m-%d %H:%M:%S'): << the datetime >>, or <<>>
\* where it raises ValueError.  The year has four digits, the other fields
\* one or two.
strptime(ts) ==
    LET DigitValue(c) ==
            CHOOSE v \in 0..9 :
                << "0", "1", "2", "3", "4", "5", "6", "7", "8", "9" >>[v + 1] = c
        \* int(s) of a run of digits
        RECURSIVE IntOf(_)
        IntOf(s) ==
            IF s = <<>> THEN 0
            ELSE IntOf(SubSeq(s, 1, Len(s) - 1)) * 10 + DigitValue(s[Len(s)])
        \* The runs of digits of a text and the characters between them.
        RECURSIVE SplitRuns(_)
        SplitRuns(s) ==
            IF s = <<>> THEN [ runs |-> << <<>> >>, seps |-> <<>> ]
            ELSE LET r == SplitRuns(Tail(s))
                 IN IF Head(s) \in Digit
                    THEN [ runs |-> << << Head(s) >> \o Head(r.runs) >>
                                        \o Tail(r.runs),
                           seps |-> r.seps ]
                    ELSE [ runs |-> << <<>> >> \o r.runs,
                           seps |-> << Head(s) >> \o r.seps ]
        LeapYear(y) == (y % 4 = 0 /\ y % 100 # 0) \/ y % 400 = 0
        DaysIn(y, m) ==
            IF m = 2 THEN (IF LeapYear(y) THEN 29 ELSE 28)
            ELSE IF m \in { 4, 6, 9, 11 } THEN 30 ELSE 31
        p == SplitRuns(ts)
        f == p.runs
        n == [ i \in 1..6 |-> IntOf(f[i]) ]
    IN IF /\ p.seps = << "-", "-", " ", ":", ":" >>
          /\ Len(f[1]) = 4
          /\ \A i \in 2..6 : Len(f[i]) \in 1..2
          /\ n[1] >= 1
          /\ n[2] \in 1..12
          /\ n[3] \in 1..DaysIn(n[1], n[2])
          /\ n[4] \in 0..23
          /\ n[5] \in 0..59
          /\ n[6] \in 0..59
       THEN << [ year |-> n[1], month |-> n[2], day |-> n[3],
                 hour |-> n[4], minute |-> n[5], second |-> n[6] ] >>
       ELSE <<>>

\* convert_timestamp_to_timezone (lines 631-645): the text of the timestamp
\* in the zone; on any error the text it was given.
convert_timestamp_to_timezone(ts, tz) ==
    LET \* The decimal digits of n, and n in two digits (%m, %d, %H, %M, %S).
        RECURSIVE TextOf(_)
        TextOf(n) ==
            LET d == << "0", "1", "2", "3", "4", "5", "6", "7", "8", "9" >>
            IN IF n < 10 THEN << d[n + 1] >>
               ELSE TextOf(n \div 10) \o << d[(n % 10) + 1] >>
        Pad2(n) == IF n < 10 THEN << "0" >> \o TextOf(n) ELSE TextOf(n)
        \* dt.strftime('%Y-%m-%d %H:%M:%S'); the C library does not pad the
        \* year.
        strftime(dt) ==
            TextOf(dt.year) \o << "-" >> \o Pad2(dt.month) \o << "-" >>
                \o Pad2(dt.day) \o << " " >> \o Pad2(dt.hour) \o << ":" >>
                \o Pad2(dt.minute) \o << ":" >> \o Pad2(dt.second)
        \* The UTC instant at which New York's clocks jump forward: the
        \* instant GapStart stands for.
        JumpUtc == << 2025, 3, 9, 7, 0, 0 >>
        DateTimeKey(dt) ==
            << dt.year, dt.month, dt.day, dt.hour, dt.minute, dt.second >>
        RECURSIVE KeyBefore(_, _)
        KeyBefore(a, b) ==
            /\ a # <<>>
            /\ \/ Head(a) < Head(b)
               \/ Head(a) = Head(b) /\ KeyBefore(Tail(a), Tail(b))
        \* Hours the zone is behind UTC at a UTC instant.
        HoursBehind(dt) ==
            IF tz = "America/Costa_Rica" THEN 6
            ELSE IF KeyBefore(DateTimeKey(dt), JumpUtc) THEN 5 ELSE 4
        LastDay(y, m) ==
            IF m = 2
            THEN (IF (y % 4 = 0 /\ y % 100 # 0) \/ y % 400 = 0 THEN 29 ELSE 28)
            ELSE IF m \in { 4, 6, 9, 11 } THEN 30 ELSE 31
        \* The day before; <<>> before year 1 (OverflowError).
        DayBefore(dt) ==
            IF dt.day > 1 THEN << [dt EXCEPT !.day = @ - 1] >>
            ELSE IF dt.month > 1
                 THEN << [dt EXCEPT !.month = @ - 1,
                                    !.day = LastDay(dt.year, dt.month - 1)] >>
                 ELSE IF dt.year > 1
                      THEN << [dt EXCEPT !.year = @ - 1, !.month = 12,
                                         !.day = 31] >>
                      ELSE <<>>
        \* dt.astimezone(target_tz): the wall time of the zone, or <<>>
        astimezone(dt) ==
            LET h == dt.hour - HoursBehind(dt)
            IN IF h >= 0 THEN << [dt EXCEPT !.hour = h] >>
               ELSE LET d == DayBefore(dt)
                    IN IF d = <<>> THEN <<>>
                       ELSE << [d[1] EXCEPT !.hour = h + 24] >>
        utc_dt == strptime(ts)
    IN IF utc_dt = <<>> THEN ts
       ELSE LET local_dt == astimezone(utc_dt[1])
            IN IF local_dt = <<>> THEN ts ELSE strftime(local_dt[1])

\* Lines 1315-1330: << the table >> of one or more readings, sorted by
\* timestamp, or <<>> when the strptime of line 1321 raises ValueError.
DataFrame(rs, tz) ==
    LET \* ord(c) of the characters of a timestamp, up to their order
        CharCode(c) ==
            CHOOSE i \in 1..13 :
                << " ", "-", "0", "1", "2", "3", "4", "5", "6", "7", "8", "9",
                   ":" >>[i] = c
        \* a < b for two strings
        RECURSIVE TextBefore(_, _)
        TextBefore(a, b) ==
            /\ b # <<>>
            /\ \/ a = <<>>
               \/ CharCode(Head(a)) < CharCode(Head(b))
               \/ Head(a) = Head(b) /\ TextBefore(Tail(a), Tail(b))
        \* df.sort_values('Timestamp'); rows of one timestamp keep their
        \* order.
        RECURSIVE PutInOrder(_, _)
        PutInOrder(row, sorted) ==
            IF sorted = <<>> THEN << row >>
            ELSE IF TextBefore(row.Timestamp, Head(sorted).Timestamp)
                 THEN << row >> \o sorted
                 ELSE << Head(sorted) >> \o PutInOrder(row, Tail(sorted))
        RECURSIVE sort_values(_)
        sort_values(rows) ==
            IF rows = <<>> THEN <<>>
            ELSE PutInOrder(rows[Len(rows)],
                            sort_values(SubSeq(rows, 1, Len(rows) - 1)))
        \* The row of a reading: its timestamp in the zone and the columns
        \* taken from it (lines 1318-1328).
        RowOf(reading) ==
            LET ts == convert_timestamp_to_timezone(reading.Timestamp, tz)
                ts_split == strptime(ts)[1]
            IN [ Timestamp |-> ts, Value1 |-> reading.Value1,
                 Tag |-> reading.Tag,
                 Temperature_C |-> reading.Temperature_C,
                 Year |-> ts_split.year, Month |-> ts_split.month,
                 Day |-> ts_split.day, Hour |-> ts_split.hour,
                 Minute |-> ts_split.minute ]
    IN IF \E i \in 1..Len(rs) :
             strptime(convert_timestamp_to_timezone(rs[i].Timestamp, tz)) = <<>>
       THEN <<>>
       ELSE << sort_values([ i \in 1..Len(rs) |-> RowOf(rs[i]) ]) >>

\* What a device answers to a range query, as the lines send_command
\* returns: no reading, one reading, two readings with the later one
\* first, and a reading whose timestamp is no date.
RangeAnswers ==
    LET StampEarly ==
            << "2", "0", "2", "5", "-", "0", "3", "-", "0", "9", " ",
               "0", "5", ":", "1", "0", ":", "0", "0" >>
        StampLate ==
            << "2", "0", "2", "5", "-", "0", "3", "-", "0", "9", " ",
               "0", "6", ":", "5", "9", ":", "5", "0" >>
        StampedLine(stamp, tagText) ==
            [ marks |-> {}, idx |-> TRUE, dbg |-> FALSE, ts |-> stamp,
              v1 |-> << "9", "9", "9" >>, tag |-> tagText,
              temp |-> << "2", "4", ".", "8", "deg", "C" >> ]
    IN { << Sentinel("BEGIN"), Sentinel("END") >>,
         << Sentinel("BEGIN"), StampedLine(StampLate, << "1", "4", "1" >>),
            Sentinel("END") >>,
         << Sentinel("BEGIN"), StampedLine(StampLate, << "1", "4", "1" >>),
            StampedLine(StampEarly, << "5", "5" >>), Sentinel("END") >>,
         << Sentinel("BEGIN"),
            RecordLine(FALSE, << "6" >>, << "2", "4", "deg", "C" >>),
            Sentinel("END") >> }

\* Variables of the transport that the script model leaves at rest.
restVars ==
    << pc, polled, inbuf, arrived, nEmitted, cmdWrites, response, received_any,
       last_rx_time, start_time, end_reason, quiet_period, hard_timeout,
       captured, result, via >>

runLocals == << click, start_epoch_live, should_auto_refresh, item >>

callVars == << fn, collecting, returned, command, attempt, ops >>

\* Mutant: the stop flag is not consulted.
LiveViewTrulyEnabled_IgnoresStop == session_state.live_view_checkbox

\* live_view_checkbox and not live_view_stop_requested (lines 1074-1078,
\* 1127-1129, 1175-1177)
LiveViewTrulyEnabled ==
    session_state.live_view_checkbox /\ ~session_state.live_view_stop_requested

\* The condition of the rerun loop at the end of the script (line 1625).
LiveLoop ==
    /\ session_state.live_view_enabled
    /\ ~session_state.live_view_stop_requested
    /\ session_state.connected

\* The reruns of the loop follow one another RerunSleepMs apart, and a run
\* in which no poll and no connection test is due changes nothing: the
\* first instant of a rerun in which one of them is due.
NextRunAt ==
    LET pollAt == IF session_state.last_live_update = 0 THEN now
                  ELSE session_state.last_live_update + PollPeriodMs
        testAt == session_state.last_connection_test + ConnTestPeriodMs + 1
        due == IF pollAt <= testAt THEN pollAt ELSE testAt
    IN IF due <= now THEN now
       ELSE now + RerunSleepMs * ((due - now + RerunSleepMs - 1) \div RerunSleepMs)

\* The run ends at its last line, or at the st.rerun() of the loop at the
\* end of the script: the locals are gone.
EndRun ==
    /\ section' = "idle"
    /\ click' = "none"
    /\ start_epoch_live' = <<>>
    /\ should_auto_refresh' = FALSE
    /\ item' = 0

\* st.rerun() in a handler: the run ends and the next one starts at once,
\* before the page shows a widget the user could use.
Rerun ==
    /\ section' = "rerun"
    /\ click' = "none"
    /\ start_epoch_live' = <<>>
    /\ should_auto_refresh' = FALSE
    /\ item' = 0

Goto(s) == section' = s /\ UNCHANGED runLocals

\* The handler calls a link function.
Call(f, cmd) ==
    /\ fn' = f
    /\ command' = cmd
    /\ attempt' = 0
    /\ ops' = <<>>
    /\ collecting' = FALSE
    /\ returned' = <<>>

\* send_command(ser, cmd): line 510 sends the commands of the list to the
\* retrying wrapper first.
SendCommand(cmd) ==
    Call(IF IsFastCommand(cmd) THEN "_wake_and_send_command" ELSE "send_command", cmd)

\* Mutant: the counter is left alone.
ConnectionLost_KeepsCount(ss) ==
    [ss EXCEPT !.connected = FALSE, !.connected_port = <<>>]

\* Mutant: the name of the port is kept.
ConnectionLost_KeepsPort(ss) ==
    [ss EXCEPT !.connected = FALSE, !.connection_error_count = 0]

\* connected = False, the link closed and dropped, the counter cleared
\* (lines 1020-1028, 1295-1303)
ConnectionLost(ss) ==
    [ss EXCEPT !.connected = FALSE, !.connected_port = <<>>,
               !.connection_error_count = 0]

\* The cause of an end of the connection, recorded while Live View is on.
StopCause(c, n) ==
    IF LiveViewTrulyEnabled THEN [ cause |-> c, polls |-> n ] ELSE forced

(***************************************************************************)
(* The link functions.                                                     *)
(***************************************************************************)
\* The link operations of a function up to the start of its loop.
OpsBeforeCollect(f) ==
    CASE f = "send_command" ->
            WakeOps \o << Op("reset_input_buffer") >> \o WriteOps
      [] f = "_wake_and_send_command" ->
            WakeOps \o << Op("reset_input_buffer") >> \o WriteOps
                \o << Sleep(PostWriteDelayMs) >>
      [] f = "get_variable_with_markers" ->
            WakeOps \o << Op("reset_input_buffer") >> \o WriteOps
                \o << Sleep(GetDelayMs) >>
      [] f = "test_connection" -> WakeOps \o WriteOps
      [] f = "test_connection_quick" ->
            << Op("reset_input_buffer") >> \o WriteOps
                \o << Sleep(QuickTestDelayMs) >>

RECURSIVE SumMs(_)
SumMs(s) == IF s = <<>> THEN 0 ELSE Head(s).ms + SumMs(Tail(s))

\* Mutant: the quick connection test returns without reading the answer.
AwaitsResponse_NotQuickTest(f) == f # "test_connection_quick"

\* Every link function reads the link in a loop after its write and returns
\* when the loop ends.
AwaitsResponse(f) ==
    f \in { "send_command", "_wake_and_send_command",
            "get_variable_with_markers", "test_connection",
            "test_connection_quick" }

\* Time the loop of f runs: a device that answers is done AnswerMs after
\* the write; with a silent device the loop runs to its timeout.
LoopMs(f, cmd, answered) ==
    IF answered THEN AnswerMs
    ELSE CASE f = "send_command" -> PlainHardTimeoutFor(cmd)
           [] f = "_wake_and_send_command" -> FastHardTimeout
           [] f = "get_variable_with_markers" -> GetTimeoutMs
           [] f = "test_connection" -> TestTimeoutMs
           [] f = "test_connection_quick" -> QuickTestTimeoutMs

\* The function the script is in runs up to its loop: wake, clear, write.
\* On a link that is gone or raises, nothing is written and the function
\* returns its failure value; get_variable_with_markers also ends the
\* connection (lines 650-668).
Send ==
    /\ fn # ""
    /\ ~collecting
    /\ returned = <<>>
    /\ IF link = "ok"
       THEN /\ ops' = OpsBeforeCollect(fn)
            /\ now' = now + SumMs(OpsBeforeCollect(fn))
            /\ in_flight' = in_flight + 1
            /\ IF AwaitsResponse(fn)
               THEN /\ collecting' = TRUE
                    /\ UNCHANGED << fn, returned >>
               ELSE /\ collecting' = FALSE
                    /\ fn' = ""
                    /\ returned' = << TRUE >>
            /\ UNCHANGED << session_state, link, forced, shown >>
       ELSE /\ ops' = <<>>
            /\ fn' = ""
            /\ returned' = << FALSE >>
            /\ IF fn = "get_variable_with_markers"
               THEN /\ session_state' =
                          [session_state EXCEPT !.connected = FALSE,
                                                !.connected_port = <<>>]
                    /\ link' = "none"
                    /\ forced' = StopCause("link", failed_polls)
                    /\ shown' = [shown EXCEPT !.failed = TRUE, !.lost = @ + 1]
               ELSE /\ shown' = [shown EXCEPT !.failed = TRUE]
                    /\ UNCHANGED << session_state, link, forced >>
            /\ UNCHANGED << now, in_flight, collecting >>
    /\ UNCHANGED << section, runLocals, command, attempt, inputs, query,
                    activation, failed_polls >>
    /\ UNCHANGED << parserVars, restVars >>

\* The loop of the function ends: the device answered, or stayed silent up
\* to the timeout.  The wrapper sleeps and tries again after an empty
\* attempt while attempt < max_retries - 1, and send_command goes on to its
\* plain path when the wrapper returned nothing.
Collect ==
    /\ collecting
    /\ \E answered \in BOOLEAN :
          LET retry == ~answered /\ fn = "_wake_and_send_command"
                          /\ RetryAgain(attempt)
              fallback == ~answered /\ fn = "_wake_and_send_command"
                             /\ ~RetryAgain(attempt)
          IN /\ now' = now + LoopMs(fn, command, answered)
                         + (IF retry THEN RetryBackoffMs ELSE 0)
             /\ attempt' = IF retry THEN attempt + 1 ELSE attempt
             /\ fn' = IF retry THEN fn
                      ELSE IF fallback THEN "send_command" ELSE ""
             /\ returned' = IF retry \/ fallback THEN <<>> ELSE << answered >>
    /\ collecting' = FALSE
    /\ in_flight' = in_flight - 1
    /\ UNCHANGED << session_state, section, runLocals, command, ops, link,
                    inputs, query, activation, failed_polls, forced, shown >>
    /\ UNCHANGED << parserVars, restVars >>

(***************************************************************************)
(* The script, section by section.                                         *)
(***************************************************************************)
Inputs ==
    { "none", "unplug", "connect", "disconnect", "retrieve", "print",
      "test_connection", "checkbox", "set_variables", "read_variables" }
    \cup Zones

\* The widget is on the page and enabled, so that the user can use it.
Offered(i) ==
    CASE i = "none" -> TRUE
      [] i = "unplug" -> link = "ok"
      [] i = "connect" -> ~session_state.connected
      [] i = "retrieve" -> session_state.connected /\ ~LiveViewTrulyEnabled
      [] i \in { "disconnect", "print", "test_connection", "checkbox" } ->
            session_state.connected
      [] i \in Zones ->
            session_state.connected /\ i # session_state.selected_timezone
      [] i \in { "set_variables", "read_variables" } -> TRUE

\* A run of the script starts: on a user input (a button, the Live View
\* checkbox, the timezone box), on st.rerun(), or with no input at all.
\* The device may have been unplugged since the last run.  The checkbox is
\* a keyed widget, so its new value is in st.session_state before the first
\* line runs.
RunStartOf(ins, max, horizon) ==
    /\ section \in { "idle", "rerun" }
    /\ now < ClockOrigin + horizon
    /\ \E i \in ins :
          /\ Offered(i)
          /\ section = "rerun" => i \in { "none", "unplug" }
          /\ i # "none" => inputs < max
          /\ inputs' = IF i = "none" THEN inputs ELSE inputs + 1
          /\ link' = IF i = "unplug" THEN "broken" ELSE link
          /\ click' = IF i = "unplug" THEN "none" ELSE i
          /\ now' = IF i = "none" /\ LiveLoop /\ section = "idle"
                    THEN NextRunAt ELSE now
          /\ session_state' =
                IF i = "checkbox"
                THEN [session_state EXCEPT !.live_view_checkbox = ~@]
                ELSE session_state
          /\ IF i = "checkbox" /\ ~session_state.live_view_checkbox
             THEN /\ activation' = [ at |-> now, stamp |-> <<>>, first |-> <<>>,
                                     off |-> FALSE,
                                     errors |-> <<>> ]
                  /\ query' = <<>>
                  /\ failed_polls' = 0
                  /\ forced' = <<>>
             ELSE /\ activation' =
                        IF i = "checkbox" /\ activation # <<>>
                        THEN [activation EXCEPT !.off = TRUE]
                        ELSE activation
                  /\ UNCHANGED << query, failed_polls, forced >>
    /\ shown' = [shown EXCEPT !.poll = <<>>, !.failed = FALSE,
                              !.raised = FALSE]
    /\ section' = "validate"
    /\ UNCHANGED << start_epoch_live, should_auto_refresh, item, callVars,
                    in_flight >>
    /\ UNCHANGED << parserVars, restVars >>

RunStart == RunStartOf(Inputs, MaxInputs, HorizonMs)

\* Lines 806-836: a connection whose link object is gone or invalid is
\* dropped.
Validate ==
    /\ section = "validate"
    /\ IF session_state.connected /\ ~(link # "none" /\ is_serial_valid(link))
       THEN /\ session_state' = ConnectionLost(session_state)
            /\ link' = "none"
            /\ forced' = StopCause("link", failed_polls)
            /\ shown' = shown
       ELSE UNCHANGED << session_state, link, forced, shown >>
    /\ Goto("buttons")
    /\ UNCHANGED << callVars, now, inputs, in_flight, query, activation,
                    failed_polls >>
    /\ UNCHANGED << parserVars, restVars >>

\* Mutant: a failed open leaves the session connected.
ConnectFailed_KeepsState(ss) == [ss EXCEPT !.connected = TRUE]

\* Lines 983-984: the session after a Connect whose open failed.
ConnectFailed(ss) ==
    [ss EXCEPT !.connected = FALSE, !.connected_port = <<>>]

\* Lines 859-1004: Connect (shown when not connected) opens the port, which
\* may fail; Disconnect closes it.  Both end the run with st.rerun(), but
\* for a failed Connect.
\* connect_to_arduino returns the opened port, or None when the port cannot
\* be opened: both except clauses report with st.error and return None.
\* One port is on offer and its name is kept in connected_port.
Buttons ==
    /\ section = "buttons"
    /\ \/ /\ click = "connect"
          /\ ~session_state.connected
          /\ IF link # "none" /\ is_serial_valid(link)
             THEN /\ session_state' =
                        [session_state EXCEPT !.connected = TRUE,
                                              !.connected_port = << "port" >>]
                  /\ failed_polls' = 0
                  /\ shown' = [shown EXCEPT !.lost = 0]
                  /\ Rerun
                  /\ UNCHANGED << link, now >>
             ELSE \E ser \in { "ok", "none" } :
                     IF ser # "none"
                     THEN /\ link' = ser
                          /\ now' = now + ConnectSettleMs
                          /\ session_state' =
                                [session_state EXCEPT
                                    !.connected = TRUE,
                                    !.connected_port = << "port" >>]
                          /\ failed_polls' = 0
                          /\ shown' = [shown EXCEPT !.lost = 0]
                          /\ Rerun
                     ELSE /\ link' = ser
                          /\ session_state' = ConnectFailed(session_state)
                          /\ Goto("conntest")
                          /\ UNCHANGED << now, failed_polls, shown >>
       \/ /\ click = "disconnect"
          /\ session_state.connected
          /\ session_state' = [session_state EXCEPT !.connected = FALSE,
                                                    !.connected_port = <<>>]
          /\ link' = "none"
          /\ Rerun
          /\ UNCHANGED << now, failed_polls, shown >>
       \/ /\ ~(click = "connect" /\ ~session_state.connected)
          /\ ~(click = "disconnect" /\ session_state.connected)
          /\ Goto("conntest")
          /\ UNCHANGED << session_state, link, now, failed_polls, shown >>
    /\ UNCHANGED << callVars, inputs, in_flight, query, activation, forced >>
    /\ UNCHANGED << parserVars, restVars >>

\* Lines 1006-1014: while Live View is enabled the connection is tested
\* when the last test is more than 30 s old.  When not connected the script
\* goes to line 1616 and on to the end of the tab.
ConnTest ==
    /\ section = "conntest"
    /\ fn = ""
    /\ returned = <<>>
    /\ IF ~session_state.connected
       THEN /\ Goto("tail")
            /\ UNCHANGED << session_state, callVars >>
       ELSE IF /\ session_state.live_view_enabled
               /\ now - session_state.last_connection_test > ConnTestPeriodMs
            THEN /\ session_state' =
                       [session_state EXCEPT !.last_connection_test = now]
                 /\ Call("test_connection_quick", CmdStatus)
                 /\ Goto("conntest")
            ELSE /\ Goto("daterange")
                 /\ UNCHANGED << session_state, callVars >>
    /\ UNCHANGED << link, now, inputs, in_flight, query, activation,
                    failed_polls, forced, shown >>
    /\ UNCHANGED << parserVars, restVars >>

\* Lines 1015-1031: a failed test counts an error, and the third error
\* ends the connection; a passed test clears the counter.
ConnTestDone ==
    /\ section = "conntest"
    /\ returned # <<>>
    /\ returned' = <<>>
    /\ IF returned[1]
       THEN /\ session_state' =
                  [session_state EXCEPT !.connection_error_count = 0]
            /\ Goto("daterange")
            /\ UNCHANGED << link, forced, shown >>
       ELSE IF session_state.connection_error_count + 1 >= ErrorThreshold
            THEN /\ session_state' = ConnectionLost(session_state)
                 /\ link' = "none"
                 /\ forced' = StopCause("tests", failed_polls)
                 /\ shown' = [shown EXCEPT !.lost = @ + 1]
                 /\ Rerun
            ELSE /\ session_state' =
                       [session_state EXCEPT !.connection_error_count = @ + 1]
                 /\ Goto("daterange")
                 /\ UNCHANGED << link, forced, shown >>
    /\ UNCHANGED << fn, collecting, command, attempt, ops, now, inputs,
                    in_flight, query, activation, failed_polls >>
    /\ UNCHANGED << parserVars, restVars >>

\* Mutant: every run of the script polls.
PollDue_EveryRun(current_time, last_update) == TRUE

\* Line 1202: five seconds have passed, or no poll has been made yet.
PollDue(current_time, last_update) ==
    current_time - last_update >= PollPeriodMs \/ last_update = 0

\* Lines 1062-1212: the timezone box, the start of the Live View window and
\* the decision to poll.  The start is the stored timestamp, or the current
\* time (which is then stored) when there is none, read in the selected
\* zone.
DateRange ==
    /\ section = "daterange"
    /\ LET tz == IF click \in Zones THEN click
                 ELSE session_state.selected_timezone
           start_dt == IF session_state.live_view_start_timestamp # <<>>
                       THEN session_state.live_view_start_timestamp[1]
                       ELSE HostNow(now)
           ss1 == IF LiveViewTrulyEnabled
                  THEN [session_state EXCEPT
                           !.selected_timezone = tz,
                           !.live_view_start_timestamp = << start_dt >>]
                  ELSE [session_state EXCEPT !.selected_timezone = tz]
           start == IF LiveViewTrulyEnabled
                    THEN << StartEpoch(tz, start_dt, HostNow(now)) >>
                    ELSE <<>>
           last_update == session_state.last_live_update
           refresh == LiveViewTrulyEnabled /\ session_state.connected
           due == PollDue(now, last_update)
       IN IF refresh /\ ~is_serial_valid(link)
          THEN \* lines 1191-1196
               /\ session_state' = [ss1 EXCEPT !.connected = FALSE,
                                                !.connected_port = <<>>]
               /\ link' = "none"
               /\ forced' = StopCause("link", failed_polls)
               /\ shown' =
                     [shown EXCEPT
                         !.lost = @ + 1,
                         !.poll = << [ kind |-> "no_link",
                                       count |-> session_state.connection_error_count,
                                       df |-> session_state.last_df,
                                       text |-> <<>> ] >>]
               /\ Rerun
          ELSE /\ session_state' =
                     IF refresh /\ due
                     THEN IF session_state.live_view_checkbox
                          THEN [ss1 EXCEPT !.last_live_update = now]
                          ELSE [ss1 EXCEPT !.live_view_enabled = FALSE,
                                           !.last_live_update = 0]
                     ELSE ss1
               /\ should_auto_refresh' =
                     (refresh /\ due /\ session_state.live_view_checkbox)
               /\ start_epoch_live' = start
               /\ section' = "fetch"
               /\ UNCHANGED << click, item, link, forced, shown >>
    /\ UNCHANGED << callVars, now, inputs, in_flight, query, activation,
                    failed_polls >>
    /\ UNCHANGED << parserVars, restVars >>

\* Lines 1217-1287 and 1352-1361: the manual Retrieve Data and the poll of
\* the scheduler, up to the call of send_command.  The poll's window ends
\* at the current time, read in the selected zone.
Fetch ==
    /\ section = "fetch"
    /\ fn = ""
    /\ returned = <<>>
    /\ IF (click = "retrieve" /\ ~LiveViewTrulyEnabled) \/ should_auto_refresh
       THEN IF session_state.connected /\ is_serial_valid(link)
            THEN IF ~should_auto_refresh
                 THEN /\ SendCommand(CmdRange)
                      /\ Goto("fetch")
                      /\ UNCHANGED << session_state, query, activation, shown >>
                 ELSE IF LiveViewTrulyEnabled /\ start_epoch_live # <<>>
                      THEN /\ query' =
                                [ start |-> start_epoch_live[1],
                                  end |-> EndEpochNow(session_state.selected_timezone,
                                                      HostNow(now)),
                                  at |-> now ]
                           /\ activation' =
                                IF activation = <<>> THEN activation
                                ELSE [activation EXCEPT
                                         !.first = IF @ = <<>>
                                                   THEN start_epoch_live ELSE @]
                           /\ SendCommand(CmdRange)
                           /\ Goto("fetch")
                           /\ UNCHANGED << session_state, shown >>
                      ELSE /\ session_state' =
                                [session_state EXCEPT
                                    !.last_live_update = now - 4 * MsPerSecond]
                           /\ Goto("checkbox")
                           /\ UNCHANGED << callVars, query, activation, shown >>
            ELSE IF should_auto_refresh
                 THEN \* lines 1358-1362: the name live_view_enabled is not
                      \* bound yet in this run, so line 1362 raises NameError
                      \* and the run ends there.
                      /\ session_state' =
                            [session_state EXCEPT
                                !.last_live_update = now - 5 * MsPerSecond]
                      /\ shown' =
                            [shown EXCEPT
                                !.raised = TRUE,
                                !.poll = << [ kind |-> "no_link",
                                              count |-> session_state.connection_error_count,
                                              df |-> session_state.last_df,
                                              text |-> <<>> ] >>]
                      /\ EndRun
                      /\ UNCHANGED << callVars, query, activation >>
                 ELSE /\ Goto("checkbox")
                      /\ UNCHANGED << session_state, callVars, query,
                                      activation, shown >>
       ELSE /\ Goto("checkbox")
            /\ UNCHANGED << session_state, callVars, query, activation, shown >>
    /\ UNCHANGED << link, now, inputs, in_flight, failed_polls, forced >>
    /\ UNCHANGED << parserVars, restVars >>

\* Mutant: every response replaces the table.
HasReadings_AnyResponse(rs) == TRUE

\* Lines 1235 and 1310: `if readings`
HasReadings(rs) == rs # <<>>

\* Lines 1231-1267 and 1288-1351: send_command has returned one of the
\* answers.  For a poll an empty response counts an error, and the third
\* error ends the connection; a response clears the counter; readings
\* replace the table.
FetchDoneOf(answers) ==
    /\ section = "fetch"
    /\ returned # <<>>
    /\ returned' = <<>>
    /\ \E text \in (IF returned[1] THEN answers ELSE { <<>> }) :
          LET rs == parse_readings("S3_live", text)
              df == IF rs = <<>> THEN << <<>> >>
                    ELSE DataFrame(rs, session_state.selected_timezone)
              Poll(k) ==
                  [shown EXCEPT
                      !.poll = << [ kind |-> k,
                                    count |-> session_state.connection_error_count,
                                    df |-> session_state.last_df,
                                    text |-> text ] >>]
              \* lines 1292-1304 and 1336-1348
              CountError(ss, k) ==
                  /\ failed_polls' = failed_polls + 1
                  /\ IF ss.connection_error_count + 1 >= ErrorThreshold
                     THEN /\ session_state' = ConnectionLost(ss)
                          /\ link' = "none"
                          /\ forced' = StopCause("polls", failed_polls + 1)
                          /\ shown' = [Poll(k) EXCEPT !.lost = @ + 1]
                          /\ Rerun
                     ELSE /\ session_state' =
                                [ss EXCEPT !.connection_error_count = @ + 1]
                          /\ shown' = Poll(k)
                          /\ Goto("checkbox")
                          /\ UNCHANGED << link, forced >>
              \* line 1307
              cleared == [session_state EXCEPT !.connection_error_count = 0]
          IN IF ~should_auto_refresh
             THEN IF rs # <<>> /\ df = <<>>
                  THEN \* the ValueError of line 1242 ends the run
                       /\ shown' = [shown EXCEPT !.raised = TRUE]
                       /\ EndRun
                       /\ UNCHANGED << session_state, link, failed_polls,
                                       forced >>
                  ELSE /\ session_state' =
                             IF HasReadings(rs)
                             THEN [session_state EXCEPT !.last_df = df]
                             ELSE session_state
                       /\ Goto("checkbox")
                       /\ UNCHANGED << link, failed_polls, forced, shown >>
             ELSE IF text = <<>>
                  THEN CountError(session_state, "empty")
                  ELSE IF rs # <<>> /\ df = <<>>
                       THEN \* the ValueError of line 1321, caught at 1333
                            CountError(cleared, "raised")
                       ELSE /\ session_state' =
                                  IF HasReadings(rs)
                                  THEN [cleared EXCEPT !.last_df = df]
                                  ELSE cleared
                            /\ failed_polls' = 0
                            /\ shown' = Poll(IF rs # <<>> THEN "readings"
                                             ELSE "no_readings")
                            /\ Goto("checkbox")
                            /\ UNCHANGED << link, forced >>
    /\ UNCHANGED << fn, collecting, command, attempt, ops, now, inputs,
                    in_flight, query, activation >>
    /\ UNCHANGED << parserVars, restVars >>

\* The device of the script model answers a range query with no reading:
\* the two markers alone.
FetchDone == FetchDoneOf({ answer \in RangeAnswers : Len(answer) = 2 })

\* Mutant: an unchecked checkbox does not set the stop flag.
Checkbox_LeavesStopClear ==
    /\ section = "checkbox"
    /\ LET previous == session_state.live_view_enabled
           v == session_state.live_view_checkbox
           stop == session_state.live_view_stop_requested
           was == session_state.live_view_checkbox_previous
           rearm == v /\ v # was /\ ~was
           enabled == IF stop THEN rearm ELSE v
           stop1 == IF stop THEN ~rearm ELSE FALSE
           ss1 == [session_state EXCEPT
                      !.live_view_checkbox_previous = v,
                      !.live_view_stop_requested = stop1,
                      !.live_view_enabled = enabled]
       IN IF enabled /\ ~previous
          THEN /\ session_state' =
                     [ss1 EXCEPT
                         !.live_view_start_timestamp = << HostNow(now) >>,
                         !.last_live_update = 0,
                         !.last_df = <<>>]
               /\ activation' =
                     IF activation = <<>>
                     THEN [ at |-> now, stamp |-> << now >>, first |-> <<>>,
                            off |-> FALSE,
                            errors |-> << session_state.connection_error_count >> ]
                     ELSE [activation EXCEPT
                              !.stamp = << now >>,
                              !.errors = << session_state.connection_error_count >>]
               /\ Rerun
          ELSE /\ session_state' =
                     IF ~enabled /\ previous
                     THEN [ss1 EXCEPT !.live_view_stop_requested = TRUE,
                                      !.live_view_start_timestamp = <<>>,
                                      !.last_live_update = 0]
                     ELSE ss1
               /\ Goto("quick")
               /\ UNCHANGED activation
    /\ shown' = [shown EXCEPT !.poll = <<>>]
    /\ UNCHANGED << callVars, link, now, inputs, in_flight, query,
                    failed_polls, forced >>
    /\ UNCHANGED << parserVars, restVars >>

\* Lines 1378-1433: the Live View checkbox.  A set stop flag keeps Live View
\* off until the checkbox goes from unchecked to checked.  Turning on
\* stores the current time as the start of the window and ends the run
\* with st.rerun(); turning off sets the stop flag and drops the start.
Checkbox ==
    /\ section = "checkbox"
    /\ LET previous == session_state.live_view_enabled
           v == session_state.live_view_checkbox
           stop == session_state.live_view_stop_requested
           was == session_state.live_view_checkbox_previous
           rearm == v /\ v # was /\ ~was
           enabled == IF stop THEN rearm ELSE v
           stop1 == IF stop THEN ~rearm ELSE ~v
           ss1 == [session_state EXCEPT
                      !.live_view_checkbox_previous = v,
                      !.live_view_stop_requested = stop1,
                      !.live_view_enabled = enabled]
       IN IF enabled /\ ~previous
          THEN /\ session_state' =
                     [ss1 EXCEPT
                         !.live_view_start_timestamp = << HostNow(now) >>,
                         !.last_live_update = 0,
                         !.last_df = <<>>]
               /\ activation' =
                     IF activation = <<>>
                     THEN [ at |-> now, stamp |-> << now >>, first |-> <<>>,
                            off |-> FALSE,
                            errors |-> << session_state.connection_error_count >> ]
                     ELSE [activation EXCEPT
                              !.stamp = << now >>,
                              !.errors = << session_state.connection_error_count >>]
               /\ Rerun
          ELSE /\ session_state' =
                     IF ~enabled /\ previous
                     THEN [ss1 EXCEPT !.live_view_stop_requested = TRUE,
                                      !.live_view_start_timestamp = <<>>,
                                      !.last_live_update = 0]
                     ELSE ss1
               /\ Goto("quick")
               /\ UNCHANGED activation
    /\ shown' = [shown EXCEPT !.poll = <<>>]
    /\ UNCHANGED << callVars, link, now, inputs, in_flight, query,
                    failed_polls, forced >>
    /\ UNCHANGED << parserVars, restVars >>

\* Lines 1557-1615: the quick command buttons.
Quick ==
    /\ section = "quick"
    /\ fn = ""
    /\ returned = <<>>
    /\ IF click = "print"
       THEN SendCommand(CmdPrint) /\ Goto("quick")
       ELSE IF click = "test_connection"
            THEN Call("test_connection", CmdTime) /\ Goto("quick")
            ELSE Goto("tail") /\ UNCHANGED callVars
    /\ UNCHANGED << session_state, link, now, inputs, in_flight, query,
                    activation, failed_polls, forced, shown >>
    /\ UNCHANGED << parserVars, restVars >>

\* The quick command has returned; its text is shown.
QuickDone ==
    /\ section = "quick"
    /\ returned # <<>>
    /\ returned' = <<>>
    /\ Goto("tail")
    /\ UNCHANGED << fn, collecting, command, attempt, ops, session_state,
                    link, now, inputs, in_flight, query, activation,
                    failed_polls, forced, shown >>
    /\ UNCHANGED << parserVars, restVars >>

\* Lines 1622-1655: while Live View is on and connected the script sleeps
\* and reruns; otherwise a Live View that is on is stopped.
RerunLoop ==
    /\ section = "tail"
    /\ IF LiveLoop
       THEN /\ now' = now + RerunSleepMs
            /\ EndRun
            /\ UNCHANGED session_state
       ELSE /\ session_state' =
                  [session_state EXCEPT
                      !.live_view_stop_requested =
                          @ \/ session_state.live_view_enabled,
                      !.last_live_update = 0]
            /\ Goto("config")
            /\ UNCHANGED now
    /\ UNCHANGED << callVars, link, inputs, in_flight, query, activation,
                    failed_polls, forced, shown >>
    /\ UNCHANGED << parserVars, restVars >>

\* Lines 1657-1733, and the end of the script: Set Variables sends five set
\* commands, Read Variables calls get_variable_with_markers five times and
\* ends with st.rerun().  When the script runs to its last line Streamlit
\* drops the state of the widgets the run did not show: the checkbox is
\* shown exactly when the session is connected.
Config ==
    /\ section = "config"
    /\ fn = ""
    /\ returned = <<>>
    /\ IF /\ click \in { "set_variables", "read_variables" }
          /\ item > 0 \/ session_state.connected
          /\ item < ConfigVars
       THEN /\ item' = item + 1
            /\ IF click = "set_variables"
               THEN SendCommand(CmdSetSsid)
               ELSE Call("get_variable_with_markers", CmdGetSsid)
            /\ UNCHANGED << section, click, start_epoch_live,
                            should_auto_refresh, session_state >>
       ELSE /\ IF click = "read_variables" /\ item > 0
               THEN /\ Rerun
                    /\ UNCHANGED session_state
               ELSE /\ EndRun
                    /\ session_state' =
                          [session_state EXCEPT
                              !.live_view_checkbox =
                                  @ /\ session_state.connected]
            /\ UNCHANGED callVars
    /\ UNCHANGED << link, now, inputs, in_flight, query, activation,
                    failed_polls, forced, shown >>
    /\ UNCHANGED << parserVars, restVars >>

\* One call of the loop has returned.
ConfigDone ==
    /\ section = "config"
    /\ returned # <<>>
    /\ returned' = <<>>
    /\ UNCHANGED << fn, collecting, command, attempt, ops, session_state,
                    section, runLocals, link, now, inputs, in_flight, query,
                    activation, failed_polls, forced, shown >>
    /\ UNCHANGED << parserVars, restVars >>

InitLive ==
    /\ InitAt({<<>>}, {"none"}, ClockOrigin)
    /\ ParserIdle
    /\ SessionIdle

NextLive ==
    \/ RunStart
    \/ Validate
    \/ Buttons
    \/ ConnTest
    \/ ConnTestDone
    \/ DateRange
    \/ Fetch
    \/ FetchDone
    \/ Checkbox
    \/ Quick
    \/ QuickDone
    \/ RerunLoop
    \/ Config
    \/ ConfigDone
    \/ Send
    \/ Collect

LiveSpec == InitLive /\ [][NextLive]_vars

(***************************************************************************)
(* The Live View and its table: the user connects, turns Live View on and  *)
(* off and retrieves data; the device answers a range query with readings  *)
(* or without; the link may go at any moment, also in the middle of a run. *)
(***************************************************************************)
\* User inputs and link events in one behaviour.
MaxViewInputs == 4
\* The script starts no run later than ViewHorizonMs after ClockOrigin.
ViewHorizonMs == 11000

\* The port is closed under the program, or the device is unplugged.
Revoke ==
    /\ link = "ok"
    /\ ~collecting
    /\ inputs < MaxViewInputs
    /\ inputs' = inputs + 1
    /\ link' \in LinkFound(link)
    /\ UNCHANGED << session_state, section, runLocals, callVars, now,
                    in_flight, query, activation, failed_polls, forced, shown >>
    /\ UNCHANGED << parserVars, restVars >>

NextView ==
    \/ RunStartOf({ "none", "connect", "checkbox", "retrieve" },
                  MaxViewInputs, ViewHorizonMs)
    \/ Validate
    \/ Buttons
    \/ ConnTest
    \/ ConnTestDone
    \/ DateRange
    \/ Fetch
    \/ FetchDoneOf(RangeAnswers)
    \/ Checkbox
    \/ Quick
    \/ RerunLoop
    \/ Config
    \/ Send
    \/ Collect
    \/ Revoke

ViewSpec == InitLive /\ [][NextView]_vars

(***************************************************************************)
(* test_connection: the exchange of the 'time' command, with the input an  *)
(* earlier exchange may have left unread in the buffer of the link.  A     *)
(* line with n = 0 was in the buffer before the call; the device answers   *)
(* after the command line was written.                                     *)
(***************************************************************************)
\* The input buffer at the call: empty, or one line that an earlier
\* exchange did not read.
StaleInput ==
    { <<>> } \cup { << [kind |-> k, n |-> 0] >> :
                       k \in { "text", "blank", "rtc_not_available" } }

InitTest ==
    /\ command = CmdTime
    /\ link \in { "ok", "none" }
    /\ pc = "t_wake"
    /\ attempt = 0
    /\ now = 0
    /\ polled = FALSE
    /\ inbuf \in StaleInput
    /\ arrived = inbuf
    /\ nEmitted = 0
    /\ ops = <<>>
    /\ cmdWrites = 0
    /\ response = <<>>
    /\ received_any = FALSE
    /\ last_rx_time = <<>>
    /\ start_time = 0
    /\ end_reason = ""
    /\ quiet_period = 0
    /\ hard_timeout = 0
    /\ captured = <<>>
    /\ result = <<>>
    /\ via = ""
    /\ OthersIdle

\* test_connection(ser), lines 761-780: wake, write 'time', then read lines
\* for two seconds and return True at the first one that is not empty and
\* is not the RTC notice; False at the timeout and on any exception.
\* Nothing clears the input buffer: _wake_serial no longer does (line 364).
test_connection ==
    LET Return(v, how) ==
            /\ pc' = "done"
            /\ result' = << v >>
            /\ via' = how
        \* except Exception: return False
        Raised ==
            /\ link' \in LinkFound(link)
            /\ Return(FALSE, "error")
            /\ UNCHANGED << now, polled, inbuf, ops, cmdWrites, response,
                            start_time >>
    IN /\ \/ /\ pc = "t_wake"
             /\ \/ /\ link = "ok"
                   /\ ops' = WakeOps
                   /\ now' = now + WAKE_DELAY
                   /\ pc' = "t_write"
                   /\ UNCHANGED << link, polled, inbuf, cmdWrites, response,
                                   start_time, result, via >>
                \/ /\ link' \in LinkFound(link)
                   /\ IF is_serial_valid(link')
                      THEN \* ser.write raises and _wake_serial re-raises
                           Return(FALSE, "error")
                      ELSE \* _wake_serial returns at its first test
                           pc' = "t_write" /\ UNCHANGED << result, via >>
                   /\ UNCHANGED << now, polled, inbuf, ops, cmdWrites,
                                   response, start_time >>
          \/ /\ pc = "t_write"
             /\ \/ /\ link = "ok"
                   /\ ops' = ops \o WriteOps
                   /\ cmdWrites' = cmdWrites + 1
                   /\ start_time' = now
                   /\ polled' = FALSE
                   /\ pc' = "t_collect"
                   /\ UNCHANGED << link, now, inbuf, response, result, via >>
                \/ Raised
          \/ /\ pc = "t_collect"
             /\ \/ /\ link = "ok"
                   /\ IF now - start_time < TestTimeoutMs
                      THEN LET hasData == inbuf # <<>>
                               accepted ==
                                   /\ hasData
                                   /\ NonEmptyLine(Head(inbuf))
                                   /\ Head(inbuf).kind # "rtc_not_available"
                           IN /\ inbuf' = IF hasData THEN Tail(inbuf)
                                          ELSE inbuf
                              /\ ops' = IF hasData
                                        THEN Append(ops, Op("readline"))
                                        ELSE ops
                              /\ response' = IF hasData THEN << Head(inbuf) >>
                                             ELSE response
                              /\ polled' = TRUE
                              /\ IF accepted
                                 THEN Return(TRUE, "answer")
                                 ELSE UNCHANGED << pc, result, via >>
                      ELSE /\ Return(FALSE, "timeout")
                           /\ UNCHANGED << polled, inbuf, ops, response >>
                   /\ UNCHANGED << link, now, cmdWrites, start_time >>
                \/ Raised
       /\ UNCHANGED << command, others, arrived, nEmitted, attempt,
                       received_any, last_rx_time, end_reason, quiet_period,
                       hard_timeout, captured >>

NextTest ==
    \/ test_connection
    \/ Tick
    \/ pc = "t_collect" /\ Emit

TestSpec == InitTest /\ [][NextTest]_vars

(***************************************************************************)
(* Properties.                                                             *)
(***************************************************************************)
\* The commands the specification lists as fast-turnaround.
FastTurnaround ==
    command \in { CmdDashboardmodeOn, CmdDashboardmodeOff, CmdStatus,
                  CmdDebugsimple, CmdDebug, CmdButtonmode, CmdTestbutton,
                  CmdPrint }

\* The texts of the collections before the last one are all empty.
EarlierEmpty == \A i \in 1..(Len(captured) - 1) : captured[i] = <<>>

\* C1: for a fast-turnaround command, if the first k-1 attempts capture
\* empty text and attempt k (k <= 3) captures non-empty text, send_command
\* returns the text of attempt k and the command line has been written
\* exactly k times; there is no fourth attempt of the wrapper.
C1_FastRetryReturnsFirstPayload ==
    /\ (FastTurnaround /\ Len(captured) \in 1..3
          /\ captured[Len(captured)] # <<>>)
         => /\ pc = "done"
            /\ via = "wrapper"
            /\ EarlierEmpty
            /\ result = captured[Len(captured)]
            /\ cmdWrites = Len(captured)
    /\ (FastTurnaround /\ via = "wrapper")
         => /\ Len(captured) \in 1..3
            /\ captured[Len(captured)] # <<>>

\* C1 witness: empty, empty, payload: returned after exactly 3 writes.
C1_Witness ==
    /\ pc = "done"
    /\ FastTurnaround
    /\ via = "wrapper"
    /\ cmdWrites = 3
    /\ captured[1] = <<>> /\ captured[2] = <<>>
    /\ result # <<>>

\* The link operations an exchange makes before its first read.
ExchangePrefix ==
    << [op |-> "write_wake", ms |-> 0], [op |-> "flush", ms |-> 0],
       [op |-> "sleep", ms |-> 220], [op |-> "reset_input_buffer", ms |-> 0],
       [op |-> "write_command", ms |-> 0], [op |-> "flush", ms |-> 0] >>

\* C2: when all 3 attempts of the wrapper capture empty text, send_command
\* falls back exactly once to the plain path (wake, clear, write, collect):
\* the command line is written 4 times in all, never more, and the text of
\* the fallback collection, empty or not, is what send_command returns.
C2_FallbackOnceAfterThreeEmpty ==
    /\ cmdWrites <= 4
    /\ (FastTurnaround /\ Len(captured) >= 3 /\ captured[3] = <<>>)
         => pc \in {"p_wake", "p_clear", "p_write", "p_collect", "p_return",
                    "done"}
    /\ (FastTurnaround /\ pc = "done" /\ via = "plain")
         => /\ Len(captured) = 4
            /\ EarlierEmpty
            /\ cmdWrites = 4
            /\ result = captured[4]
            /\ SubSeq(ops, 1, 6) = ExchangePrefix

\* C2 witness: three empty attempts, then a fallback that captured text.
C2_Witness ==
    /\ pc = "done"
    /\ FastTurnaround
    /\ via = "plain"
    /\ cmdWrites = 4
    /\ result # <<>>

\* C3: for a command outside the fast-turnaround list, one send_command call
\* never writes the command line twice, and a call whose exchange ran to a
\* termination reason has written it exactly once, whatever was captured.
C3_PlainWrittenOnce ==
    ~FastTurnaround
      => /\ cmdWrites <= 1
         /\ Len(captured) <= 1
         /\ (pc = "done" /\ via = "plain")
              => (cmdWrites = 1 /\ Len(captured) = 1 /\ result = captured[1])
         /\ via # "wrapper"

\* C3 witness: a plain command whose only exchange captured nothing.
C3_Witness ==
    /\ pc = "done"
    /\ ~FastTurnaround
    /\ via = "plain"
    /\ end_reason = "hard_timeout"
    /\ result = <<>>
    /\ cmdWrites = 1

\* The lines read from the link in the current exchange, in arrival order.
LinesRead == SubSeq(arrived, 1, Len(arrived) - Len(inbuf))

\* Time since the last non-empty line was received.
SinceLastRx == now - last_rx_time[1]

\* The command is a range query: "range " after leading blanks only.
RangeQuery ==
    \E i \in 1..Len(command) :
       /\ \A j \in 1..(i - 1) : command[j] \in {" ", "\t", "\n", "\r"}
       /\ Len(command) >= i + 5
       /\ SubSeq(command, i, i + 5) = <<"r", "a", "n", "g", "e", " ">>

\* A line at which the plain path of the current command ends the exchange.
Terminator(l) ==
    \/ l.kind = "dashboard_end"
    \/ (l.kind = "readings_end" /\ RangeQuery)

\* C4: in the plain-path loop, every non-empty line received is appended in
\* arrival order and the loop goes on as long as the lines arrive with gaps
\* of at most quietPeriod; once a line has been received and none arrives
\* for longer than quietPeriod the loop stops, with reason quiet_period
\* unless an end marker ended it.
C4_PlainQuietPeriod ==
    /\ pc \in {"p_collect", "p_return"}
         => response = SelectSeq(LinesRead, LAMBDA l : l.kind # "blank")
    /\ (pc = "p_return" /\ end_reason = "quiet_period")
         => /\ received_any
            /\ response # <<>>
            /\ SinceLastRx > quiet_period
    /\ (pc = "p_collect" /\ polled /\ received_any)
         => SinceLastRx <= quiet_period
    /\ (pc = "p_return" /\ received_any /\ SinceLastRx > quiet_period)
         => end_reason \in {"quiet_period", "end_marker"}

\* C4 witness: two lines 0.6 s apart were both collected, then the link was
\* silent for more than the quiet period.
C4_Witness ==
    /\ pc = "p_return"
    /\ end_reason = "quiet_period"
    /\ Len(response) = 2
    /\ now - start_time > quiet_period + quiet_period

\* C5: in an attempt of the retrying wrapper, once a non-empty line has been
\* received and the link has been silent for longer than the 0.6 s quiet
\* period, the collection has stopped (it does not go on to the 10 s hard
\* timeout).
C5_WrapperStopsOnQuiet ==
    (pc = "w_collect" /\ polled /\ received_any) => SinceLastRx <= 600

\* C6: with no end marker and no quiet period reached, the plain-path loop
\* stops with reason hard_timeout as soon as the elapsed time exceeds
\* hardTimeout, and send_command returns the text captured so far, partial
\* or empty, without raising.
C6_HardTimeout ==
    /\ (pc = "p_collect" /\ polled) => now - start_time <= hard_timeout
    /\ (pc \in {"p_return", "done"} /\ end_reason = "hard_timeout" /\ via # "wrapper")
         => /\ now - start_time > hard_timeout
            /\ now - start_time <= hard_timeout + TickMs
            /\ received_any => SinceLastRx <= quiet_period
            /\ \A i \in 1..Len(response) : ~Terminator(response[i])
    /\ (pc = "p_return" /\ now - start_time > hard_timeout
          /\ (received_any => SinceLastRx <= quiet_period)
          /\ (response = <<>> \/ ~Terminator(response[Len(response)])))
         => end_reason = "hard_timeout"
    /\ (pc = "done" /\ end_reason = "hard_timeout" /\ via # "wrapper")
         => (via = "plain" /\ result = response)

\* C6 witness: a partial text returned on the hard timeout.
C6_Witness ==
    /\ pc = "done"
    /\ via = "plain"
    /\ end_reason = "hard_timeout"
    /\ result # <<>>

\* C7: the plain path stops with reason end_marker at the first received
\* line holding </DASHBOARD_DATA> or, for a range command,
\* ---END_READINGS---: that line ends the returned text and is the last
\* line read from the link in the exchange.
C7_EndMarker ==
    /\ pc = "p_collect"
         => \A i \in 1..Len(response) : ~Terminator(response[i])
    /\ (pc = "p_return" \/ (pc = "done" /\ via = "plain"))
         => /\ \A i \in 1..(Len(response) - 1) : ~Terminator(response[i])
            /\ end_reason = "end_marker"
                 <=> (response # <<>> /\ Terminator(response[Len(response)]))
            /\ end_reason = "end_marker"
                 => LinesRead[Len(LinesRead)] = response[Len(response)]
    /\ (pc = "done" /\ via = "plain") => result = response

\* C7 witness: a range query ended by ---END_READINGS--- with a later line
\* left unread in the input buffer.
C7_Witness ==
    /\ pc = "done"
    /\ via = "plain"
    /\ end_reason = "end_marker"
    /\ result[Len(result)].kind = "readings_end"
    /\ inbuf # <<>>

\* C8: every send_command call returns, given that time advances: a
\* collection loop is left with one of the three reasons set, a link found
\* invalid ends the wait with the next link operation and no collection is
\* entered afterwards, and the call reaches its return.
C8_AlwaysReturns ==
    /\ [](pc \in {"w_after", "p_return"}
            => end_reason \in {"end_marker", "quiet_period", "hard_timeout"})
    /\ [][(link' # "ok" /\ pc' # pc)
            => /\ pc' \notin {"w_collect", "p_collect"}
               /\ pc = "p_collect" => (pc' = "done" /\ result' = <<>>)
               /\ pc = "w_collect" => pc' \in {"w_begin", "p_wake"}]_vars
    /\ <>(pc = "done")

\* C8 witness: the link became invalid while a plain exchange was waiting
\* for the response, and the call returned.
C8_Witness ==
    /\ pc = "done"
    /\ ~FastTurnaround
    /\ link # "ok"
    /\ cmdWrites = 1
    /\ via = "error"

\* C9 as stated: the (quietPeriod, hardTimeout) pair of every collection is
\* fixed by the command: (1.5 s, 30 s) exactly for a range query,
\* (0.6 s, 10 s) for every collection of a fast-turnaround command,
\* (0.6 s, 20 s) for every other command.
C9_ProfileByCommand ==
    pc \in {"w_collect", "p_collect"}
      => << quiet_period, hard_timeout >> =
           IF RangeQuery THEN << 1500, 30000 >>
           ELSE IF FastTurnaround THEN << 600, 10000 >>
           ELSE << 600, 20000 >>

\* C9 amended: the pair is (0.6 s, 10 s) in every attempt of the retrying
\* wrapper, which only fast-turnaround commands enter; in the plain path it
\* is (1.5 s, 30 s) exactly for a range query and (0.6 s, 20 s) otherwise,
\* the fallback collection of a fast-turnaround command included.
C9_ProfileByPath ==
    /\ pc = "w_collect"
         => (FastTurnaround /\ << quiet_period, hard_timeout >> = << 600, 10000 >>)
    /\ pc = "p_collect"
         => << quiet_period, hard_timeout >> =
              IF RangeQuery THEN << 1500, 30000 >> ELSE << 600, 20000 >>
    /\ (pc = "p_collect" /\ FastTurnaround)
         => captured = << <<>>, <<>>, <<>> >>
    /\ (pc \in {"w_collect", "p_collect"} /\ ~FastTurnaround)
         => captured = <<>>

\* C9 witness: the fallback collection of a fast-turnaround command runs
\* with the 20 s hard timeout.
C9_Witness ==
    /\ pc = "p_collect"
    /\ FastTurnaround
    /\ hard_timeout = 20000
    /\ quiet_period = 600

C11_WakeBeforeCommand ==
    \A i \in 1..Len(ops) :
        ops[i].op = "write_command"
            => \E j \in 1..(i - 1) :
                  /\ ops[j].op = "write_wake"
                  /\ \E k \in (j + 1)..(i - 1) :
                        ops[k].op = "sleep" /\ ops[k].ms = 220

\* C12: at most one command is in flight on the link: a command line is
\* written only when no earlier command's collection is still running, and
\* whatever the script is collecting for is the one command in flight; a
\* poll and a user command that fall in the same run follow one another.
C12_OneCommandInFlight ==
    /\ in_flight <= 1
    /\ collecting <=> in_flight = 1
    /\ (fn = "" /\ ~collecting) => in_flight = 0

\* C12 witness: in one run the scheduler's poll was due and the user
\* pressed Print All; the poll has returned and the print command is now
\* the only command in flight.
C12_Witness ==
    /\ section = "quick"
    /\ click = "print"
    /\ should_auto_refresh
    /\ query # <<>>
    /\ command = << "p", "r", "i", "n", "t" >>
    /\ collecting
    /\ in_flight = 1

\* The line at position i of a text is inside a reading block: a line with
\* ---BEGIN_READINGS--- precedes it with no sentinel line of either kind
\* from there to i, i itself included; closed asks in addition that a line
\* with ---END_READINGS--- follows.
InsideBlock(lines, i, closed) ==
    /\ \E j \in 1..(i - 1) :
          /\ "BEGIN" \in lines[j].marks
          /\ \A m \in (j + 1)..i :
                "BEGIN" \notin lines[m].marks /\ "END" \notin lines[m].marks
    /\ closed => \E k \in (i + 1)..Len(lines) : "END" \in lines[k].marks

\* The temperature of a record line as text, without the unit.
TemperatureText(t) ==
    IF Len(t) >= 3 /\ t[1] = "N" /\ t[2] = "/" /\ t[3] = "A"
    THEN << "N", "/", "A" >>
    ELSE SubSeq(t, 1, NumberRun(t))

\* The Readings of the record lines inside the blocks of a text, in order.
RECURSIVE ReadingsFrom(_, _, _, _)
ReadingsFrom(ver, lines, i, closed) ==
    IF i > Len(lines) THEN <<>>
    ELSE LET l == lines[i]
             here == IF /\ InsideBlock(lines, i, closed)
                        /\ (debug_match(ver, l) \/ normal_match(ver, l))
                     THEN << [ Timestamp |-> l.ts, Value1 |-> l.v1,
                               Tag |-> l.tag,
                               Temperature_C |-> TemperatureText(l.temp) ] >>
                     ELSE <<>>
         IN here \o ReadingsFrom(ver, lines, i + 1, closed)

\* C13 as stated: parse_readings returns exactly one Reading for each
\* line that lies between a ---BEGIN_READINGS--- line and the following
\* ---END_READINGS--- line and matches the debug or the normal pattern, in
\* line order, fields verbatim, the temperature without its unit; all other
\* lines yield nothing.
C13_ReadingsOfClosedBlocks ==
    applied = "parse_readings"
        => readings = ReadingsFrom(version, raw_response, 1, TRUE)

\* C13, amended: parse_readings returns exactly one Reading for each line
\* that matches the debug or the normal pattern and follows a
\* ---BEGIN_READINGS--- line with no ---END_READINGS--- line in between,
\* whether or not an ---END_READINGS--- line follows it; in line order,
\* fields verbatim, the temperature without its unit; all other lines yield
\* nothing, and a text without a ---BEGIN_READINGS--- line yields the empty
\* list.
C13_ReadingsOfOpenedBlocks ==
    applied = "parse_readings"
        => /\ readings = ReadingsFrom(version, raw_response, 1, FALSE)
           /\ (\A i \in 1..Len(raw_response) :
                  "BEGIN" \notin raw_response[i].marks) => readings = <<>>

\* C13 witness: a closed block with two matching lines and one that does
\* not match has been parsed into two Readings.
C13_Witness ==
    /\ applied = "parse_readings"
    /\ Len(raw_response) = 4
    /\ "BEGIN" \in raw_response[1].marks
    /\ raw_response[3].idx /\ raw_response[3].temp = << "2", "4" >>
    /\ Len(readings) = 2
    /\ readings[1].Temperature_C = << "2", "4", ".", "8" >>
    /\ readings[2].Tag = << "7" >>

\* C14: when the captured text has several wrappers or several reading
\* blocks, the readings produced for a query are those of the last reading
\* block only: no Reading comes from a line before the last
\* ---BEGIN_READINGS--- line.
C14_OnlyLastBlock ==
    applied = "retrieve"
        => LET begins == { i \in 1..Len(raw_response) :
                             "BEGIN" \in raw_response[i].marks }
               last == IF begins = {} THEN 1
                       ELSE CHOOSE i \in begins : \A j \in begins : j <= i
           IN readings =
                ReadingsFrom(version,
                             SubSeq(raw_response, last, Len(raw_response)),
                             1, FALSE)

\* C15: a record line inside a reading block whose temperature is N/A
\* produces a Reading with temperature "N/A", in both files: there are as
\* many such Readings as such lines.
C15_NotAvailableKept ==
    applied = "parse_readings"
        => Cardinality({ i \in 1..Len(readings) :
                           readings[i].Temperature_C = << "N", "/", "A" >> })
           = Cardinality({ i \in 1..Len(raw_response) :
                             /\ InsideBlock(raw_response, i, FALSE)
                             /\ raw_response[i].idx
                             /\ raw_response[i].temp = << "N", "/", "A" >> })

\* The first position of a line equal to l after position from; 0 if none.
FirstAt(lines, l, from) ==
    LET at == { i \in (from + 1)..Len(lines) : lines[i] = l }
    IN IF at = {} THEN 0 ELSE CHOOSE i \in at : \A j \in at : i <= j

\* C16: get_variable_with_markers(var) returns the first non-empty,
\* non-marker line received after <GET_M_BEGIN> and before <GET_M_END>,
\* where M is the table entry of var, or var upper-cased when unmapped; the
\* result is None when the begin marker is never received or no such line
\* is.
C16_FirstValueBetweenMarkers ==
    applied = "get_variable"
        => LET b == [ kind |-> "begin", s |-> DeviceMarker(var) ]
               e == [ kind |-> "end", s |-> DeviceMarker(var) ]
               from == FirstAt(rx_lines, b, 0)
               upto == IF from = 0 \/ FirstAt(rx_lines, e, from) = 0
                       THEN Len(rx_lines) + 1
                       ELSE FirstAt(rx_lines, e, from)
               between == { i \in (from + 1)..(upto - 1) :
                              /\ rx_lines[i].kind # "empty"
                              /\ rx_lines[i] # b }
           IN IF from = 0 \/ between = {}
              THEN value = <<>>
              ELSE value = << rx_lines[CHOOSE i \in between :
                                         \A j \in between : i <= j] >>

\* C16 witness: for rfidOnTimeMs the loop saw <GET_RFIDONTIME_BEGIN>, an
\* empty line, a value and the end marker, and returned the value.
C16_Witness ==
    /\ applied = "get_variable"
    /\ var = VarRfidOnTimeMs
    /\ Len(rx_lines) = 4
    /\ rx_lines[1] = [ kind |-> "begin",
                       s |-> << "R", "F", "I", "D", "O", "N", "T", "I", "M", "E" >> ]
    /\ rx_lines[2].kind = "empty"
    /\ rx_lines[3].kind = "text"
    /\ rx_lines[4].kind = "end" /\ rx_lines[4].s = rx_lines[1].s
    /\ value = << rx_lines[3] >>

\* C17: during one Live View activation every range query of the scheduler
\* carries the same start epoch, the one of the timestamp captured at
\* activation, and its end epoch is the current time at the moment of the
\* poll.
C17_WindowOfActivation ==
    (query # <<>> /\ activation # <<>>)
        => /\ activation.first # <<>> => query.start = activation.first[1]
           /\ activation.stamp # <<>>
                 => query.start = activation.stamp[1] \div 1000
           /\ query.end = query.at \div 1000

\* C18: for every range query of the scheduler the start epoch is less
\* than or equal to the end epoch.
C18_StartNotAfterEnd ==
    query # <<>> => query.start <= query.end

\* C19: every successful poll resets the failure counter to 0, and when
\* three polls in a row have failed the session is disconnected and no
\* poll is issued until the user has reconnected and activated Live View
\* again.
C19_ThreeFailedPollsDeactivate ==
    /\ (section = "checkbox" /\ should_auto_refresh /\ failed_polls = 0)
          => session_state.connection_error_count = 0
    /\ failed_polls >= 3 => ~session_state.connected
    /\ (forced # <<>> /\ forced.cause = "polls")
          => ~(should_auto_refresh /\ fn # "")

\* C20: an active Live View is stopped by the program only after three
\* consecutive failed polls; fewer never force the deactivation.
C20_OnlyThreeFailedPollsStop ==
    (forced # <<>> /\ forced.cause \in { "polls", "tests" })
        => forced.polls >= 3

\* A collection loop reads a line that is empty or undecodable.
ReadsBlankLine ==
    /\ pc \in { "w_collect", "p_collect" }
    /\ inbuf # <<>>
    /\ Head(inbuf).kind = "blank"
    /\ ops' = Append(ops, Op("readline"))

\* C30: a received line that is undecodable or empty after stripping does
\* not abort the collection loop: it is not appended to the captured text,
\* is not counted, does not move the last-receive time of the quiet period,
\* and the loop goes on (or ends by the quiet period or the hard timeout,
\* never by an error); no such line is ever part of a captured text.
C30_BlankLineSkipped ==
    /\ [](\A i \in 1..Len(response) : response[i].kind # "blank")
    /\ [][ReadsBlankLine
            => /\ response' = response
               /\ received_any' = received_any
               /\ last_rx_time' = last_rx_time
               /\ inbuf' = Tail(inbuf)
               /\ via' = via
               /\ \/ pc' = pc
                  \/ end_reason' \in { "quiet_period", "hard_timeout" }]_vars

\* C30 witness: an empty line arrived first and was skipped, and the text
\* line that arrived after it is the whole captured text.
C30_Witness ==
    /\ pc \in { "w_collect", "p_collect" }
    /\ Len(arrived) = 2
    /\ arrived[1].kind = "blank"
    /\ arrived[2].kind = "text"
    /\ inbuf = <<>>
    /\ response = << arrived[2] >>
    /\ last_rx_time # <<>>

\* The poll the script has just handled, and what it was handed.
PollSeen == shown.poll # <<>>

LastPoll == shown.poll[1]

\* C21: a poll that returns empty text, or whose handling raises, leaves
\* last_df as it was before the poll and adds exactly one to
\* connection_error_count (short of the third failure in a row, which ends
\* the connection and clears the counter).
C21_FailedPollKeepsDisplay ==
    (PollSeen /\ LastPoll.kind \in { "empty", "raised" })
        => /\ session_state.last_df = LastPoll.df
           /\ LastPoll.count + 1 < ErrorThreshold
                 => session_state.connection_error_count = LastPoll.count + 1

\* What a table and a list of readings say, apart from the timestamps.
Measured(r) ==
    [ Value1 |-> r.Value1, Tag |-> r.Tag, Temperature_C |-> r.Temperature_C ]

OnDisplay ==
    IF session_state.last_df = <<>> THEN {}
    ELSE { Measured(session_state.last_df[1][i]) :
              i \in 1..Len(session_state.last_df[1]) }

ParsedFrom(text) ==
    LET rs == parse_readings("S3_live", text)
    IN { Measured(rs[i]) : i \in 1..Len(rs) }

\* The rows of the table are in the order of their times: no row is of
\* an earlier year, or of the same year and an earlier second of it, than
\* a row above it.
SecondOfYear(row) ==
    LET dt == strptime(row.Timestamp)[1]
    IN (((dt.month * 32 + dt.day) * 24 + dt.hour) * 60 + dt.minute) * 60
          + dt.second

InTimeOrder(rows) ==
    \A i \in 1..Len(rows), j \in 1..Len(rows) :
        i < j => \/ rows[i].Year < rows[j].Year
                 \/ /\ rows[i].Year = rows[j].Year
                    /\ SecondOfYear(rows[i]) <= SecondOfYear(rows[j])

C23_BlockedTickCounts ==
    (PollSeen /\ LastPoll.kind = "no_link")
        => /\ session_state.connection_error_count = LastPoll.count + 1
           /\ session_state.connected
                 => session_state.last_live_update + PollPeriodMs
                       >= now + PollPeriodMs

\* After the user has unchecked the box no poll is decided and Live View
\* is off, in every section of every later run.
NoPollAfterDeactivation ==
    (activation # <<>> /\ activation.off)
        => /\ ~should_auto_refresh
           /\ ~LiveViewTrulyEnabled

\* C24: once the user has unchecked the box the scheduler is idle from that
\* script run on: no poll is decided until the box is checked again, and
\* when a run has ended the stored start of the window is gone.
C24_DeactivationStopsPolling ==
    /\ NoPollAfterDeactivation
    /\ (activation # <<>> /\ activation.off /\ section = "idle")
          => session_state.live_view_start_timestamp = <<>>

\* The activation handler has just ended the run.
ActivatedNow ==
    /\ section = "rerun"
    /\ activation # <<>>
    /\ activation.stamp = << now >>
    /\ activation.first = <<>>

\* C25: the activation stores the current time as the start of the window,
\* clears the poll clock and the failure counter, and drops the table.
C25_ActivationResets ==
    /\ (activation # <<>> /\ activation.errors # <<>>)
          => activation.errors[1] = 0
    /\ ActivatedNow
          => /\ session_state.live_view_start_timestamp = << HostNow(now) >>
             /\ session_state.last_live_update = 0
             /\ session_state.last_df = <<>>

NextPoll == query # <<>> /\ query' # <<>> /\ query' # query

C27_LinkErrorDisconnects ==
    /\ ~shown.raised
    /\ (shown.failed /\ section \in { "idle", "rerun" })
          => /\ ~session_state.connected
             /\ session_state.connected_port = <<>>
             /\ link = "none"

\* C28: the loss of one connection is reported to the user once.
C28_LossReportedOnce == shown.lost <= 1

\* C29: after a Connect whose open failed the session is disconnected
\* (connected False, connected_port None, serial_connection None) for the
\* rest of the run, and nothing was raised.
C29_FailedOpenStaysDisconnected ==
    (click = "connect" /\ section \notin { "validate", "buttons" })
        => /\ ~session_state.connected
           /\ session_state.connected_port = <<>>
           /\ link = "none"
           /\ ~shown.raised

\* The Connect handler has run and the port could not be opened, after an
\* earlier connection of the session.
C29_Witness ==
    /\ click = "connect"
    /\ section = "conntest"
    /\ inputs = 3
    /\ ~session_state.connected
    /\ session_state.connected_port = <<>>
    /\ link = "none"

(***************************************************************************)
(* The stop flag, reconnection and the connection record.                  *)
(***************************************************************************)
\* The user has ticked the box in this run: it was unchecked on the page.
TickedNow ==
    /\ click = "checkbox"
    /\ session_state.live_view_checkbox
    /\ ~session_state.live_view_checkbox_previous

\* A step that sends the range query of a poll.
PollSent == query' # <<>> /\ query' # query

\* C31: once live_view_stop_requested is set, Live View stays off in every
\* later run until the checkbox goes from unchecked to checked: the flag is
\* cleared only by the checkbox processing of a run the user started by
\* ticking the box, no poll is sent while it is set, and a checkbox
\* processing (the step that leaves the section) that leaves it set leaves
\* live_view_enabled False.
C31_StopHoldsUntilTicked ==
    /\ [][(session_state.live_view_stop_requested
             /\ ~session_state'.live_view_stop_requested)
          => (section = "checkbox" /\ TickedNow)]_vars
    /\ [][PollSent => ~session_state.live_view_stop_requested]_vars
    /\ [][(section = "checkbox" /\ section' # "checkbox"
             /\ session_state'.live_view_stop_requested)
          => ~session_state'.live_view_enabled]_vars

\* Live View was on, the connection was ended by the program, and the user
\* has reconnected: in a run without a tick the checkbox has been processed
\* and Live View is still off.
C31_Witness ==
    /\ section = "quick"
    /\ click # "checkbox"
    /\ session_state.connected
    /\ session_state.live_view_stop_requested
    /\ ~session_state.live_view_enabled
    /\ activation # <<>>
    /\ forced # <<>>

\* The program ended the connection while Live View was on, the user has
\* not touched the checkbox since, and the session is connected again.
ReconnectedAfterLoss ==
    /\ section = "idle"
    /\ session_state.connected
    /\ forced # <<>>
    /\ activation # <<>>
    /\ activation.stamp # <<>>
    /\ ~activation.off

\* C32: when the connection is lost while Live View is enabled, Live View
\* stays enabled, and once the user has reconnected it is on again with the
\* start of the window that was captured at the activation.
C32_LiveViewResumesAfterReconnect ==
    ReconnectedAfterLoss
        => /\ LiveViewTrulyEnabled
           /\ session_state.live_view_enabled
           /\ session_state.live_view_start_timestamp
                 = << HostNow(activation.stamp[1]) >>

\* C33: at the end of every script run connected is True exactly when
\* serial_connection is not None and exactly when connected_port is not
\* None.
C33_ConnectionRecordConsistent ==
    section \in { "idle", "rerun" }
        => /\ session_state.connected <=> link # "none"
           /\ session_state.connected <=> session_state.connected_port # <<>>

\* A run has ended after the third failed poll in a row ended the
\* connection.
C33_Witness ==
    /\ section \in { "idle", "rerun" }
    /\ forced # <<>>
    /\ forced.cause = "polls"
    /\ ~session_state.connected
    /\ link = "none"
    /\ session_state.connected_port = <<>>

\* The step that takes the result of a quick connection test that failed.
FailedTestStep ==
    section = "conntest" /\ returned = << FALSE >> /\ returned' = <<>>

\* The step that takes the result of a poll that got no response.
EmptyPollStep ==
    /\ section = "fetch"
    /\ should_auto_refresh
    /\ returned = << FALSE >>
    /\ returned' = <<>>

\* C34: connection_error_count is in 0..2 at every run boundary; a failed
\* poll and a failed quick connection test each add one to it, and the
\* failure that would make it 3 marks the session disconnected, closes and
\* clears the handle and sets the counter to 0.
C34_ErrorCountBelowThree ==
    /\ [](section \in { "idle", "rerun" }
            => session_state.connection_error_count \in 0..2)
    /\ [][(FailedTestStep \/ EmptyPollStep)
          => IF session_state.connection_error_count = 2
             THEN /\ ~session_state'.connected
                  /\ session_state'.connected_port = <<>>
                  /\ link' = "none"
                  /\ session_state'.connection_error_count = 0
             ELSE /\ session_state'.connection_error_count
                        = session_state.connection_error_count + 1
                  /\ session_state'.connected]_vars

\* The third failure has ended the connection, and the three were not all
\* polls: a failed quick test counted as well.
C34_Witness ==
    /\ section = "rerun"
    /\ forced # <<>>
    /\ forced.cause \in { "polls", "tests" }
    /\ forced.polls \in 1..2
    /\ ~session_state.connected
    /\ session_state.connection_error_count = 0

\* C35: a poll counts as successful, and sets the failure counter to 0,
\* exactly when its response is not empty, also when no reading can be
\* parsed from it; when no reading is parsed the table is left as it was.
C35_NonEmptyResponseResets ==
    (PollSeen /\ LastPoll.kind # "no_link")
        => /\ LastPoll.text # <<>>
                 => session_state.connection_error_count = 0
           /\ (LastPoll.text = <<>> /\ session_state.connected)
                 => session_state.connection_error_count = LastPoll.count + 1
           /\ ParsedFrom(LastPoll.text) = {}
                 => session_state.last_df = LastPoll.df

\* Line j opens a block that the text does not close: no sentinel follows.
CutShortAt(lines, j) ==
    /\ "BEGIN" \in lines[j].marks
    /\ \A k \in (j + 1)..Len(lines) :
          "BEGIN" \notin lines[k].marks /\ "END" \notin lines[k].marks

\* The record lines of a text after line j.
RecordLinesAfter(ver, lines, j) ==
    LET IsRecord(l) == debug_match(ver, l) \/ normal_match(ver, l)
    IN SelectSeq(SubSeq(lines, j + 1, Len(lines)), IsRecord)

\* C36: parse_readings returns the readings of a block whose
\* ---BEGIN_READINGS--- line was received and whose ---END_READINGS--- line
\* is missing: the record lines after the last begin line are the last
\* readings of the result, so a response cut short gives a partial result
\* and not an empty one.
C36_OpenBlockIsParsed ==
    applied = "parse_readings"
        => \A j \in 1..Len(raw_response) :
              CutShortAt(raw_response, j)
                 => LET open == RecordLinesAfter(version, raw_response, j)
                        n == Len(open)
                        m == Len(readings)
                    IN /\ m >= n
                       /\ \A k \in 1..n :
                             /\ readings[m - n + k].Timestamp = open[k].ts
                             /\ readings[m - n + k].Value1 = open[k].v1
                             /\ readings[m - n + k].Tag = open[k].tag

\* A text of a begin line and two record lines, with no end line, has been
\* parsed into two Readings.
C36_Witness ==
    /\ applied = "parse_readings"
    /\ Len(raw_response) = 3
    /\ CutShortAt(raw_response, 1)
    /\ Len(RecordLinesAfter(version, raw_response, 1)) = 2
    /\ Len(readings) = 2
    /\ readings[1].Tag = raw_response[2].tag
    /\ readings[2].Tag = raw_response[3].tag

\* C37: the start and end epochs of a poll's range query are the UTC
\* epochs of the instant of the activation and of the instant of the poll,
\* whichever display timezone is selected and also when the selection
\* changes during the activation.
C37_EpochsAreUtc ==
    (query # <<>> /\ activation # <<>> /\ activation.stamp # <<>>)
        => /\ query.start * MsPerSecond <= activation.stamp[1]
           /\ activation.stamp[1] < (query.start + 1) * MsPerSecond
           /\ query.end * MsPerSecond <= query.at
           /\ query.at < (query.end + 1) * MsPerSecond

(***************************************************************************)
(* The connection test, the wrapper's failures and the window's start.    *)
(***************************************************************************)
\* C38: when test_connection returns True, the line it accepted is not
\* empty and reached the input buffer after the 'time' command was written
\* (n >= 1); a line that was in the buffer before the call (n = 0) is never
\* the accepted one.
C38_AnswerFollowsCommand ==
    (pc = "done" /\ result = << TRUE >>) =>
        /\ cmdWrites = 1
        /\ response # <<>>
        /\ NonEmptyLine(response[1])
        /\ response[1].n >= 1

ActivationStart(tz) ==
    { Epoch(tz, HostNow(activation.stamp[1]), dst) : dst \in BOOLEAN }

\* C40: whenever the date range is calculated with Live View effectively
\* enabled (checkbox checked, stop flag clear) the start timestamp is set
\* and is the time stored at the activation, so the fallback to the current
\* time is not taken; the window start of every poll is that timestamp.
C40_StartIsActivationTime ==
    /\ [](section = "daterange" /\ LiveViewTrulyEnabled
            => /\ activation # <<>>
               /\ activation.stamp # <<>>
               /\ session_state.live_view_start_timestamp =
                     << HostNow(activation.stamp[1]) >>)
    /\ [][PollSent
            => /\ start_epoch_live # <<>>
               /\ query'.start = start_epoch_live[1]
               /\ query'.start \in ActivationStart(session_state.selected_timezone)
               /\ session_state'.live_view_start_timestamp =
                     << HostNow(activation.stamp[1]) >>]_vars

\* C40 witness: a later run of an activation calculates the date range: a
\* poll has been made, Live View is effectively enabled, the script is
\* connected and the stored start is the activation's.
C40_Witness ==
    /\ section = "daterange"
    /\ LiveViewTrulyEnabled
    /\ session_state.connected
    /\ query # <<>>
    /\ activation # <<>>
    /\ activation.stamp # <<>>
    /\ now > activation.stamp[1]
    /\ session_state.live_view_start_timestamp # <<>>

====
